---------------------------- MODULE Spec2Model ----------------------------
(***************************************************************************)
(* A model of the Tyco configuration parser (typedconfig/tyco-rust):       *)
(* the line state machine of parser.rs, the value literal parser, the      *)
(* document model of context.rs / value.rs and the four-pass resolution    *)
(* pipeline (coercion, indexing, reference resolution, template            *)
(* rendering).                                                             *)
(*                                                                         *)
(* Text is modelled as a sequence of one-character strings, so that the    *)
(* scanners of the source (quote stripping, placeholder scanning, path     *)
(* splitting, escape processing, integer formatting) are computed the way  *)
(* the code computes them.  Option<T> is a sequence of length 0 or 1.      *)
(* IndexMap<K, V> is a sequence of entries [k, v] in insertion order.      *)
(***************************************************************************)
EXTENDS Integers, Sequences, FiniteSets, TLC

(***************************************************************************)
(* Bounds of the model.                                                    *)
(***************************************************************************)
\* most physical lines one input document holds (Spec)
MaxLines == 5
\* longest string literal handed to TycoString::render (SpecString)
MaxStrLen == 4
\* the calls of apply_schema, one nested in the other, that the stack has room for
MaxDepth == 4

(***************************************************************************)
(* Option<T> and text helpers.                                             *)
(***************************************************************************)
None == <<>>

Some(x) == <<x>>

IsSome(o) == Len(o) > 0

IsNone(o) == Len(o) = 0

\* str::contains(char)
Contains(s, ch) == \E i \in 1..Len(s) : s[i] = ch

\* str::starts_with
StartsWith(s, p) == Len(p) <= Len(s) /\ SubSeq(s, 1, Len(p)) = p

\* str::ends_with
EndsWith(s, p) == Len(p) <= Len(s) /\ SubSeq(s, Len(s) - Len(p) + 1, Len(s)) = p

\* index of the first occurrence of ch in s at or after position from, 0 if none
FindFrom(s, ch, from) ==
    IF \E i \in from..Len(s) : s[i] = ch
    THEN CHOOSE i \in from..Len(s) : s[i] = ch /\ \A j \in from..(i - 1) : s[j] # ch
    ELSE 0

\* index of the first occurrence of the substring p in s at or after from, 0 if none
FindSub(s, p, from) ==
    LET hits == {i \in from..(Len(s) - Len(p) + 1) : SubSeq(s, i, i + Len(p) - 1) = p}
    IN IF hits = {} THEN 0 ELSE CHOOSE i \in hits : \A j \in hits : i <= j

Whitespace == {" ", "\t", "\n", "\r"}

RECURSIVE TrimStart(_)
TrimStart(s) == IF s # <<>> /\ Head(s) \in Whitespace THEN TrimStart(Tail(s)) ELSE s

RECURSIVE TrimEnd(_)
TrimEnd(s) ==
    IF s # <<>> /\ s[Len(s)] \in Whitespace THEN TrimEnd(SubSeq(s, 1, Len(s) - 1)) ELSE s

\* str::trim
Trim(s) == TrimEnd(TrimStart(s))

\* str::split(ch): always at least one part
RECURSIVE Split(_, _)
Split(s, ch) ==
    LET i == FindFrom(s, ch, 1)
    IN IF i = 0 THEN <<s>> ELSE <<SubSeq(s, 1, i - 1)>> \o Split(SubSeq(s, i + 1, Len(s)), ch)

Digits == <<"0", "1", "2", "3", "4", "5", "6", "7", "8", "9">>

HexDigits == Digits \o <<"a", "b", "c", "d", "e", "f">>

Lower(ch) ==
    CASE ch = "A" -> "a" [] ch = "B" -> "b" [] ch = "C" -> "c"
      [] ch = "D" -> "d" [] ch = "E" -> "e" [] ch = "F" -> "f" [] OTHER -> ch

\* value of one digit in the given radix, -1 when it is no digit of that radix
DigitValue(ch, radix) ==
    LET c == Lower(ch)
        hits == {i \in 1..radix : HexDigits[i] = c}
    IN IF hits = {} THEN -1 ELSE (CHOOSE i \in hits : TRUE) - 1

\* i64::to_string
RECURSIVE NatToChars(_)
NatToChars(n) ==
    IF n < 10 THEN <<Digits[n + 1]>> ELSE Append(NatToChars(n \div 10), Digits[(n % 10) + 1])

IntToChars(n) == IF n < 0 THEN <<"-">> \o NatToChars(-n) ELSE NatToChars(n)

(***************************************************************************)
(* IndexMap<String, V>: entries [k |-> key, v |-> value] in insertion      *)
(* order.                                                                  *)
(***************************************************************************)
map_contains_key(m, k) == \E i \in 1..Len(m) : m[i].k = k

map_position(m, k) == CHOOSE i \in 1..Len(m) : m[i].k = k

map_get(m, k) == IF map_contains_key(m, k) THEN Some(m[map_position(m, k)].v) ELSE None

\* IndexMap::insert: an existing key keeps its position
map_insert(m, k, v) ==
    IF map_contains_key(m, k)
    THEN [m EXCEPT ![map_position(m, k)] = [k |-> k, v |-> v]]
    ELSE Append(m, [k |-> k, v |-> v])

\* IndexMap::shift_remove
map_shift_remove(m, k) == SelectSeq(m, LAMBDA e : e.k # k)

map_keys(m) == [i \in 1..Len(m) |-> m[i].k]

(***************************************************************************)
(* TycoValue (value.rs): a tagged record per variant.                      *)
(***************************************************************************)
NullV == [tag |-> "Null"]

BoolV(b) == [tag |-> "Bool", b |-> b]

IntV(n) == [tag |-> "Int", n |-> n]

\* TycoString::new
TycoString(value, has_template, is_literal) ==
    [value |-> value, has_template |-> has_template, is_literal |-> is_literal]

StringV(s) == [tag |-> "String", s |-> s]

\* Date, Time and DateTime hold normalized text
TextV(tag, text) == [tag |-> tag, text |-> text]

ArrayV(items) == [tag |-> "Array", items |-> items]

InstanceV(inst) == [tag |-> "Instance", inst |-> inst]

\* TycoReference::new: resolved starts as None
TycoReference(struct_name, primary_key) ==
    [struct_name |-> struct_name, primary_key |-> primary_key, resolved |-> None]

ReferenceV(ref) == [tag |-> "Reference", ref |-> ref]

(***************************************************************************)
(* Results.  Ok(v) and Err(kind) are the two cases of Result<T, TycoError>;*)
(* kind is the TycoError variant ("Parse", "UnknownStruct", "Reference"),  *)
(* or "panic" where the source would panic (a slice out of range).         *)
(***************************************************************************)
Ok(v) == [ok |-> TRUE, v |-> v, err |-> ""]

Err(kind) == [ok |-> FALSE, v |-> NullV, err |-> kind]

\* values.push(first) in a loop whose remaining iterations yield rest
push_front(first, rest) == IF rest.ok THEN Ok(<<first>> \o rest.v) ELSE Err(rest.err)

\* Ok(TycoValue::Array(values)) once the items are there
array_result(items) == IF items.ok THEN Ok(ArrayV(items.v)) ELSE Err(items.err)

\* Ok(TycoValue::Instance(instance)) once the instance is there
instance_result(instance) == IF instance.ok THEN Ok(InstanceV(instance.v)) ELSE Err(instance.err)

(***************************************************************************)
(* TycoInstance (value.rs).                                                *)
(***************************************************************************)
\* TycoInstance::new
TycoInstance(name) == [struct_name |-> name, fields |-> <<>>, field_order |-> <<>>]

set_attribute(inst, name, value) ==
    [inst EXCEPT
        !.field_order = IF map_contains_key(inst.fields, name) THEN @ ELSE Append(@, name),
        !.fields = map_insert(@, name, value)]

get_attribute(inst, name) == map_get(inst.fields, name)

\* the instance after remove_attribute (the removed value is get_attribute before)
remove_attribute(inst, name) ==
    [inst EXCEPT
        !.field_order = SelectSeq(@, LAMBDA f : f # name),
        !.fields = map_shift_remove(@, name)]

\* names of the schema fields the instance has, in schema order
RECURSIVE schema_present(_, _)
schema_present(inst, schema) ==
    IF schema = <<>> THEN <<>>
    ELSE (IF map_contains_key(inst.fields, Head(schema).name)
          THEN <<Head(schema).name>> ELSE <<>>) \o schema_present(inst, Tail(schema))

\* ordered.push(key) for every key of field_order that ordered does not contain yet
RECURSIVE push_missing(_, _)
push_missing(ordered, keys) ==
    IF keys = <<>> THEN ordered
    ELSE push_missing(IF \E i \in 1..Len(ordered) : ordered[i] = Head(keys)
                      THEN ordered ELSE Append(ordered, Head(keys)),
                      Tail(keys))

enforce_order_from_schema(inst, schema) ==
    [inst EXCEPT !.field_order = push_missing(schema_present(inst, schema), inst.field_order)]

(***************************************************************************)
(* TycoValue::to_template_text                                             *)
(***************************************************************************)
to_template_text(value) ==
    CASE value.tag = "Null" -> <<"n", "u", "l", "l">>
      [] value.tag = "Bool" -> IF value.b THEN <<"t", "r", "u", "e">>
                                            ELSE <<"f", "a", "l", "s", "e">>
      [] value.tag = "Int" -> IntToChars(value.n)
      [] value.tag = "String" -> value.s.value
      [] value.tag \in {"Date", "Time", "DateTime"} -> value.text
      [] value.tag = "Array" -> <<"[", "a", "r", "r", "a", "y", "]">>
      [] value.tag = "Instance" -> <<"[", "i", "n", "s", "t", "a", "n", "c", "e", "]">>
      [] value.tag = "Reference" -> value.ref.primary_key

(***************************************************************************)
(* utils.rs: unescape_basic_string.  The result is [ok, value]; ok = FALSE *)
(* is the Err of the source (an incomplete or invalid unicode escape).     *)
(***************************************************************************)
\* the value of hex text (u32::from_str_radix(code, 16)), -1 when it is malformed
RECURSIVE HexValue(_, _)
HexValue(code, acc) ==
    IF code = <<>> THEN acc
    ELSE IF DigitValue(Head(code), 16) < 0 THEN -1
    ELSE HexValue(Tail(code), acc * 16 + DigitValue(Head(code), 16))

\* from_str_radix takes one leading "+"; more than six significant digits
\* exceed every code point, so they are refused before they are summed
CodeOf(code) ==
    LET body == IF code # <<>> /\ Head(code) = "+" THEN Tail(code) ELSE code
    IN IF body = <<>> THEN -1
       ELSE IF Len(body) > 6 /\ \E i \in 1..(Len(body) - 6) : body[i] # "0"
            THEN IF \A i \in 1..Len(body) : DigitValue(body[i], 16) >= 0 THEN 1114112 ELSE -1
       ELSE HexValue(body, 0)

\* char::from_u32: no surrogate and at most 0x10FFFF
IsScalarValue(n) == n >= 0 /\ n <= 1114111 /\ ~(n >= 55296 /\ n <= 57343)

\* the character of a code point: the ASCII ones the inputs can spell, else a symbol
CharOf(n) ==
    CASE n = 123 -> "{" [] n = 125 -> "}" [] n = 46 -> "." [] n = 92 -> "\\"
      [] n = 34 -> "\"" [] n = 97 -> "a" [] n = 98 -> "b"
      [] OTHER -> "U+" \o ToString(n)

\* "<BS>" stands for the one character U+0008, which a TLA+ string cannot spell
RECURSIVE unescape_loop(_, _)
unescape_loop(chars, output) ==
    IF chars = <<>> THEN [ok |-> TRUE, value |-> output]
    ELSE IF Head(chars) # "\\" THEN unescape_loop(Tail(chars), Append(output, Head(chars)))
    ELSE IF Len(chars) = 1 THEN [ok |-> TRUE, value |-> Append(output, "\\")]
    ELSE LET e == chars[2]
             rest == SubSeq(chars, 3, Len(chars))
             hexlen == IF e = "u" THEN 4 ELSE 8
         IN CASE e = "n" -> unescape_loop(rest, Append(output, "\n"))
              [] e = "t" -> unescape_loop(rest, Append(output, "\t"))
              [] e = "r" -> unescape_loop(rest, Append(output, "\r"))
              [] e = "b" -> unescape_loop(rest, Append(output, "<BS>"))
              [] e = "f" -> unescape_loop(rest, Append(output, "\f"))
              [] e = "\"" -> unescape_loop(rest, Append(output, "\""))
              [] e = "\\" -> unescape_loop(rest, Append(output, "\\"))
              [] e \in {"u", "U"} ->
                    IF Len(rest) < hexlen THEN [ok |-> FALSE, value |-> <<>>]
                    ELSE LET n == CodeOf(SubSeq(rest, 1, hexlen))
                         IN IF ~IsScalarValue(n) THEN [ok |-> FALSE, value |-> <<>>]
                            ELSE unescape_loop(SubSeq(rest, hexlen + 1, Len(rest)),
                                               Append(output, CharOf(n)))
              [] OTHER -> unescape_loop(rest, output \o <<"\\", e>>)

unescape_basic_string(value) == unescape_loop(value, <<>>)

(***************************************************************************)
(* value.rs: resolve_placeholder and TycoString::render.  ctx is the       *)
(* TycoContext [globals, structs], current an Option<TycoInstance>.        *)
(***************************************************************************)
\* queue.push_front(format!("{first}.{second}")) after popping the first two
merge_front(queue) ==
    <<queue[1] \o <<".">> \o queue[2]>> \o SubSeq(queue, 3, Len(queue))

\* the while loop of resolve_from_instance: container is Option<&TycoInstance>
RECURSIVE resolve_from_instance_loop(_, _, _)
resolve_from_instance_loop(container, queue, current_value) ==
    IF queue = <<>> THEN current_value
    ELSE IF IsNone(container) THEN None
    ELSE LET got == get_attribute(container[1], Head(queue))
         IN IF IsSome(got)
            THEN LET value == got[1]
                     rest == Tail(queue)
                 IN IF rest = <<>> THEN Some(value)
                    ELSE IF value.tag = "Instance"
                         THEN resolve_from_instance_loop(Some(value.inst), rest, Some(value))
                    ELSE IF value.tag = "Reference"
                         THEN resolve_from_instance_loop(value.ref.resolved, rest, Some(value))
                    ELSE None
            ELSE IF Len(queue) > 1
                 THEN resolve_from_instance_loop(container, merge_front(queue), current_value)
            ELSE None

resolve_from_instance(instance, parts) ==
    IF parts = <<>> THEN None
    ELSE resolve_from_instance_loop(Some(instance), parts, None)

\* the while loop of resolve_from_globals: with no container the name is looked up
\* among the globals (also after a Reference whose payload is absent)
RECURSIVE resolve_from_globals_loop(_, _, _)
resolve_from_globals_loop(ctx, container, queue) ==
    IF queue = <<>> THEN None
    ELSE LET got == IF IsSome(container) THEN get_attribute(container[1], Head(queue))
                    ELSE map_get(ctx.globals, Head(queue))
         IN IF IsSome(got)
            THEN LET value == got[1]
                     rest == Tail(queue)
                 IN IF rest = <<>> THEN Some(value)
                    ELSE IF value.tag = "Instance"
                         THEN resolve_from_globals_loop(ctx, Some(value.inst), rest)
                    ELSE IF value.tag = "Reference"
                         THEN resolve_from_globals_loop(ctx, value.ref.resolved, rest)
                    ELSE None
            ELSE IF Len(queue) > 1
                 THEN resolve_from_globals_loop(ctx, container, merge_front(queue))
            ELSE None

resolve_from_globals(ctx, parts) ==
    IF parts = <<>> THEN None ELSE resolve_from_globals_loop(ctx, None, parts)

\* current.and_then(|instance| resolve_from_instance(instance, &path_parts))
lookup_in_current(path_parts, current) ==
    IF IsSome(current) THEN resolve_from_instance(current[1], path_parts) ELSE None

\* if value.is_none() && path_parts.len() > 1 && path_parts[0] == "global"
lookup_global_prefix(value, path_parts, ctx) ==
    IF IsNone(value) /\ Len(path_parts) > 1 /\ path_parts[1] = <<"g", "l", "o", "b", "a", "l">>
    THEN resolve_from_globals(ctx, Tail(path_parts))
    ELSE value

\* if value.is_none() { value = resolve_from_globals(ctx, &path_parts) }
lookup_in_globals(value, path_parts, ctx) ==
    IF IsNone(value) THEN resolve_from_globals(ctx, path_parts) ELSE value

\* the three lookups of resolve_placeholder, in the order of the source
lookup_path(path_parts, ctx, current) ==
    lookup_in_globals(
        lookup_global_prefix(lookup_in_current(path_parts, current), path_parts, ctx),
        path_parts, ctx)

placeholder_value(placeholder, ctx, current) == lookup_path(Split(placeholder, "."), ctx, current)

\* value.map(TycoValue::to_template_text)
map_to_template_text(value) == IF IsSome(value) THEN Some(to_template_text(value[1])) ELSE None

resolve_placeholder(placeholder, ctx, current) ==
    map_to_template_text(placeholder_value(placeholder, ctx, current))

\* what the scan pushes for one placeholder: the resolved text, or the placeholder
\* between a "{" and a "}"
substitute(resolved, placeholder) ==
    IF IsSome(resolved) THEN resolved[1] ELSE <<"{">> \o placeholder \o <<"}">>

\* the scan of TycoString::render from position i on; result is the text so far
RECURSIVE render_scan(_, _, _, _, _)
render_scan(chars, i, result, ctx, current) ==
    IF i > Len(chars) THEN result
    ELSE IF chars[i] = "{"
    THEN LET close == FindFrom(chars, "}", i + 1)
             placeholder == IF close = 0 THEN SubSeq(chars, i + 1, Len(chars))
                            ELSE SubSeq(chars, i + 1, close - 1)
             next == IF close = 0 THEN Len(chars) + 1 ELSE close + 1
         IN render_scan(chars, next,
                        result \o substitute(resolve_placeholder(placeholder, ctx, current),
                                             placeholder),
                        ctx, current)
    ELSE render_scan(chars, i + 1, Append(result, chars[i]), ctx, current)

\* self.value = unescape_basic_string(&result).unwrap_or(result)
unwrap_or(unescaped, result) == IF unescaped.ok THEN unescaped.value ELSE result

\* the two assignments that end TycoString::render
store_rendered(s, result) ==
    [s EXCEPT !.value = unwrap_or(unescape_basic_string(result), result),
              !.has_template = FALSE]

\* TycoString::render
render(s, ctx, current) ==
    IF ~s.has_template \/ s.is_literal THEN s
    ELSE store_rendered(s, render_scan(s.value, 1, <<>>, ctx, current))

\* TycoValue::render_templates: an Instance renders its fields one at a time in
\* field order, each against a clone of the instance taken after the field before
RECURSIVE render_templates(_, _, _)
RECURSIVE render_instance_fields(_, _, _, _)
\* the body of the loop over the keys: the field, if present, is rendered in place
render_field(instance, snapshot_instance, key, ctx) ==
    IF map_contains_key(instance.fields, key)
    THEN [instance EXCEPT !.fields =
            map_insert(@, key, render_templates(get_attribute(instance, key)[1], ctx,
                                                Some(snapshot_instance)))]
    ELSE instance

\* snapshot_instance = instance.clone(), then the remaining keys
render_remaining_fields(after, keys, ctx) == render_instance_fields(after, after, keys, ctx)

render_instance_fields(instance, snapshot_instance, keys, ctx) ==
    IF keys = <<>> THEN instance
    ELSE render_remaining_fields(render_field(instance, snapshot_instance, Head(keys), ctx),
                                 Tail(keys), ctx)

\* a faulty render_templates: the payload of a Reference is rendered with the
\* instance it was copied from, as if the two were one object
render_templates_aliased(value, ctx, current) ==
    CASE value.tag = "String" -> StringV(render(value.s, ctx, current))
      [] value.tag = "Array" ->
            ArrayV([i \in 1..Len(value.items) |-> render_templates(value.items[i], ctx, current)])
      [] value.tag = "Instance" ->
            InstanceV(render_instance_fields(value.inst, value.inst, value.inst.field_order, ctx))
      [] value.tag = "Reference" /\ IsSome(value.ref.resolved) ->
            ReferenceV([value.ref EXCEPT !.resolved =
                Some(render_instance_fields(value.ref.resolved[1], value.ref.resolved[1],
                                            value.ref.resolved[1].field_order, ctx))])
      [] OTHER -> value

render_templates(value, ctx, current) ==
    CASE value.tag = "String" -> StringV(render(value.s, ctx, current))
      [] value.tag = "Array" ->
            ArrayV([i \in 1..Len(value.items) |-> render_templates(value.items[i], ctx, current)])
      [] value.tag = "Instance" ->
            InstanceV(render_instance_fields(value.inst, value.inst, value.inst.field_order, ctx))
      [] OTHER -> value

(***************************************************************************)
(* Character classes and the integer width.                                *)
(***************************************************************************)
LowerLetters ==
    {"a", "b", "c", "d", "e", "f", "g", "h", "i", "j", "k", "l", "m",
     "n", "o", "p", "q", "r", "s", "t", "u", "v", "w", "x", "y", "z"}

UpperLetters ==
    {"A", "B", "C", "D", "E", "F", "G", "H", "I", "J", "K", "L", "M",
     "N", "O", "P", "Q", "R", "S", "T", "U", "V", "W", "X", "Y", "Z"}

IsAlphabetic(ch) == ch \in LowerLetters \cup UpperLetters

IsDigit(ch) == \E i \in 1..10 : Digits[i] = ch

IsAlphanumeric(ch) == IsAlphabetic(ch) \/ IsDigit(ch)

\* the width of the model's integers; it stands for the 64 bits of i64
IntBits == 8

IntMax == (2 ^ (IntBits - 1)) - 1

IntMin == -(2 ^ (IntBits - 1))

(***************************************************************************)
(* utils.rs: parse_integer, split_top_level, strip_leading_newline.        *)
(***************************************************************************)
\* the checked accumulation of i64::from_str_radix: digits are added for a
\* positive number and subtracted for a negative one; -1 in ok marks an error
RECURSIVE radix_loop(_, _, _, _)
radix_loop(digits, radix, negative, acc) ==
    IF digits = <<>> THEN Ok(acc)
    ELSE LET d == DigitValue(Head(digits), radix)
             next == IF negative THEN acc * radix - d ELSE acc * radix + d
         IN IF d < 0 THEN Err("Parse")
            ELSE IF next > IntMax \/ next < IntMin THEN Err("Parse")
            ELSE radix_loop(Tail(digits), radix, negative, next)

\* i64::from_str_radix (and str::parse::<i64> for radix 10): one optional sign
from_str_radix(text, radix) ==
    IF text = <<>> THEN Err("Parse")
    ELSE LET signed == Head(text) \in {"+", "-"}
             digits == IF signed THEN Tail(text) ELSE text
         IN IF digits = <<>> THEN Err("Parse")
            ELSE radix_loop(digits, radix, Head(text) = "-", 0)

\* Ok(if negative { -value } else { value }): the negation of the least integer
\* overflows, which panics
negate_if(negative, value) ==
    IF ~value.ok THEN Err("Parse")
    ELSE IF ~negative THEN Ok(value.v)
    ELSE IF -value.v > IntMax THEN Err("panic")
    ELSE Ok(-value.v)

parse_integer(token) ==
    LET trimmed == Trim(token)
        negative == StartsWith(trimmed, <<"-">>)
        body == IF negative THEN Tail(trimmed) ELSE trimmed
        prefix == IF Len(body) >= 2 /\ body[1] = "0" THEN body[2] ELSE ""
        digits == SubSeq(body, 3, Len(body))
    IN negate_if(negative,
                 CASE prefix \in {"x", "X"} -> from_str_radix(digits, 16)
                   [] prefix \in {"o", "O"} -> from_str_radix(digits, 8)
                   [] prefix \in {"b", "B"} -> from_str_radix(digits, 2)
                   [] OTHER -> from_str_radix(body, 10))

\* is_escaped: an odd number of backslashes ends current
RECURSIVE trailing_backslashes(_)
trailing_backslashes(current) ==
    IF current # <<>> /\ current[Len(current)] = "\\"
    THEN 1 + trailing_backslashes(SubSeq(current, 1, Len(current) - 1))
    ELSE 0

is_escaped(current) == trailing_backslashes(current) % 2 = 1

\* the scan of split_top_level; st is [parts, current, depth, in_quotes, quote_char]
RECURSIVE split_scan(_, _, _)
split_scan(input, delimiter, st) ==
    IF input = <<>> THEN st
    ELSE LET ch == Head(input)
             next ==
               IF st.in_quotes
               THEN IF ch = st.quote_char /\ ~is_escaped(st.current)
                    THEN [st EXCEPT !.in_quotes = FALSE, !.quote_char = "", !.current = Append(@, ch)]
                    ELSE [st EXCEPT !.current = Append(@, ch)]
               ELSE CASE ch \in {"\"", "'"} ->
                           [st EXCEPT !.in_quotes = TRUE, !.quote_char = ch, !.current = Append(@, ch)]
                      [] ch \in {"[", "{", "("} ->
                           [st EXCEPT !.depth = @ + 1, !.current = Append(@, ch)]
                      [] ch \in {"]", "}", ")"} ->
                           [st EXCEPT !.depth = @ - 1, !.current = Append(@, ch)]
                      [] ch = delimiter /\ st.depth = 0 ->
                           [st EXCEPT !.parts = Append(@, Trim(st.current)), !.current = <<>>]
                      [] OTHER -> [st EXCEPT !.current = Append(@, ch)]
         IN split_scan(Tail(input), delimiter, next)

split_top_level(input, delimiter) ==
    LET st == split_scan(input, delimiter,
                         [parts |-> <<>>, current |-> <<>>, depth |-> 0,
                          in_quotes |-> FALSE, quote_char |-> ""])
    IN IF Trim(st.current) # <<>> THEN Append(st.parts, Trim(st.current)) ELSE st.parts

strip_leading_newline(value) == IF StartsWith(value, <<"\n">>) THEN Tail(value) ELSE value

\* normalize_time: the fractional digits after the first "." become exactly six
normalize_time(value) ==
    LET idx == FindFrom(value, ".", 1)
    IN IF idx = 0 THEN value
       ELSE LET head == SubSeq(value, 1, idx)
                tail == SubSeq(value, idx + 1, Len(value))
                nondigit == {i \in 1..Len(tail) : ~IsDigit(tail[i])}
                cut == IF nondigit = {} THEN Len(tail)
                       ELSE (CHOOSE i \in nondigit : \A j \in nondigit : i <= j) - 1
                digits == SubSeq(tail, 1, cut)
                fractional == IF Len(digits) < 6
                              THEN digits \o [i \in 1..(6 - Len(digits)) |-> "0"]
                              ELSE SubSeq(digits, 1, 6)
            IN head \o fractional

\* normalize_datetime
normalize_datetime(value) ==
    LET spaced == [i \in 1..Len(value) |-> IF value[i] = " " THEN "T" ELSE value[i]]
        result == IF EndsWith(spaced, <<"Z">>)
                  THEN SubSeq(spaced, 1, Len(spaced) - 1) \o <<"+", "0", "0", ":", "0", "0">>
                  ELSE spaced
        idx == FindFrom(result, ".", 1)
    IN IF idx = 0 THEN result
       ELSE LET signs == {i \in idx..Len(result) : result[i] \in {"+", "-"}}
                tz_start == IF signs = {} THEN Len(result) + 1
                            ELSE CHOOSE i \in signs : \A j \in signs : i <= j
            IN SubSeq(result, 1, idx - 1)
               \o normalize_time(SubSeq(result, idx, tz_start - 1))
               \o SubSeq(result, tz_start, Len(result))

(***************************************************************************)
(* context.rs: FieldSchema, TycoStruct, TycoContext.                       *)
(***************************************************************************)
\* FieldSchema::new followed by the assignments of parse_lines
FieldSchema(name, type_name, is_primary_key, is_nullable, is_array, default_value) ==
    [name |-> name, type_name |-> type_name, is_primary_key |-> is_primary_key,
     is_nullable |-> is_nullable, is_array |-> is_array, default_value |-> default_value]

\* TycoStruct::new
TycoStruct(name) ==
    [name |-> name, fields |-> <<>>, primary_key_field |-> None,
     instances |-> <<>>, primary_index |-> <<>>]

add_field(struct, field) ==
    [struct EXCEPT
        !.primary_key_field = IF field.is_primary_key THEN Some(field.name) ELSE @,
        !.fields = Append(@, field)]

add_instance(struct, instance) == [struct EXCEPT !.instances = Append(@, instance)]

has_primary_key(struct) == IsSome(struct.primary_key_field)

has_field(struct, field_name) == \E i \in 1..Len(struct.fields) : struct.fields[i].name = field_name

\* TycoStruct::set_default; the caller has checked that the field exists
set_default(struct, field_name, value) ==
    LET i == CHOOSE j \in 1..Len(struct.fields) :
                 /\ struct.fields[j].name = field_name
                 /\ \A k \in 1..(j - 1) : struct.fields[k].name # field_name
    IN [struct EXCEPT !.fields[i].default_value = value]

\* TycoContext::new
TycoContext == [globals |-> <<>>, structs |-> <<>>]

set_global(ctx, name, value) == [ctx EXCEPT !.globals = map_insert(@, name, value)]

get_struct(ctx, name) == map_get(ctx.structs, name)

\* TycoContext::add_struct: an existing entry is replaced, a new one appended
add_struct(ctx, struct) == [ctx EXCEPT !.structs = map_insert(@, struct.name, struct)]

\* the write through get_struct_mut
put_struct(ctx, struct) == [ctx EXCEPT !.structs = map_insert(@, struct.name, struct)]

(***************************************************************************)
(* parser.rs: the value literal parser.                                    *)
(***************************************************************************)
TripleDouble == <<"\"", "\"", "\"">>

TripleSingle == <<"'", "'", "'">>

has_both_braces(content) == Contains(content, "{") /\ Contains(content, "}")

\* TycoString::new(content, has_template, false) of an unescaped basic string
basic_string(content) ==
    IF content.ok THEN Ok(TycoString(content.value, has_both_braces(content.value), FALSE))
    ELSE Err("Parse")

\* parse_string_value: Result<TycoString>.  A one-character token that is a lone
\* quote makes the slice token[1..len-1] start past its end, which panics.
parse_string_value(token) ==
    LET end3d == IF StartsWith(token, TripleDouble) THEN FindSub(token, TripleDouble, 4) ELSE 0
        end3s == IF StartsWith(token, TripleSingle) THEN FindSub(token, TripleSingle, 4) ELSE 0
    IN IF end3d > 0
       THEN basic_string(unescape_basic_string(strip_leading_newline(SubSeq(token, 4, end3d - 1))))
       ELSE IF end3s > 0
       THEN Ok(TycoString(SubSeq(token, 4, end3s - 1), FALSE, TRUE))
       ELSE IF StartsWith(token, <<"\"">>) /\ EndsWith(token, <<"\"">>)
       THEN IF Len(token) < 2 THEN Err("panic")
            ELSE basic_string(unescape_basic_string(SubSeq(token, 2, Len(token) - 1)))
       ELSE IF StartsWith(token, <<"'">>) /\ EndsWith(token, <<"'">>)
       THEN IF Len(token) < 2 THEN Err("panic")
            ELSE Ok(TycoString(SubSeq(token, 2, Len(token) - 1), FALSE, TRUE))
       ELSE Ok(TycoString(token, has_both_braces(token), FALSE))

\* TycoParser::is_valid_field_name
is_valid_field_name(name) ==
    /\ name # <<>>
    /\ (IsAlphabetic(name[1]) \/ name[1] = "_")
    /\ \A i \in 2..Len(name) : IsAlphanumeric(name[i]) \/ name[i] = "_"

\* the scan of split_named_argument from position idx on: Option<<<name, value>>>
RECURSIVE named_scan(_, _, _, _, _)
named_scan(part, idx, depth, in_quotes, quote_char) ==
    IF idx > Len(part) THEN None
    ELSE LET ch == part[idx]
         IN IF in_quotes
            THEN IF ch = quote_char THEN named_scan(part, idx + 1, depth, FALSE, quote_char)
                 ELSE IF ch = "\\" THEN named_scan(part, idx + 2, depth, TRUE, quote_char)
                 ELSE named_scan(part, idx + 1, depth, TRUE, quote_char)
            ELSE CASE ch \in {"\"", "'"} -> named_scan(part, idx + 1, depth, TRUE, ch)
                   [] ch \in {"(", "[", "{"} -> named_scan(part, idx + 1, depth + 1, FALSE, quote_char)
                   [] ch \in {")", "]", "}"} -> named_scan(part, idx + 1, depth - 1, FALSE, quote_char)
                   [] ch = ":" /\ depth = 0 ->
                        LET name == Trim(SubSeq(part, 1, idx - 1))
                            value == Trim(SubSeq(part, idx + 1, Len(part)))
                        IN IF is_valid_field_name(name) /\ value # <<>>
                           THEN Some(<<name, value>>)
                           ELSE named_scan(part, idx + 1, depth, FALSE, quote_char)
                   [] OTHER -> named_scan(part, idx + 1, depth, FALSE, quote_char)

split_named_argument(part) == named_scan(part, 1, 0, FALSE, "")

\* field_type_descriptor
field_type_descriptor(base, is_array) == IF is_array THEN base \o <<"[", "]">> ELSE base

\* field_type_name
field_type_name(field) == field_type_descriptor(field.type_name, field.is_array)

\* STRUCT_CALL_RE ^([A-Za-z][A-Za-z0-9_]*)\((.*)\)$ : Option<<<name, args>>>
struct_call_captures(token) ==
    LET stops == {i \in 1..Len(token) : ~(IsAlphanumeric(token[i]) \/ token[i] = "_")}
        open == IF stops = {} THEN 0 ELSE CHOOSE i \in stops : \A j \in stops : i <= j
    IN IF /\ open > 1
          /\ IsAlphabetic(token[1])
          /\ token[open] = "("
          /\ token[Len(token)] = ")"
          /\ Len(token) > open
          /\ ~Contains(SubSeq(token, open + 1, Len(token) - 1), "\n")
       THEN Some(<<SubSeq(token, 1, open - 1), SubSeq(token, open + 1, Len(token) - 1)>>)
       ELSE None

\* the loop of parse_inline_instance over the parts: Result<TycoInstance>
RECURSIVE inline_parts(_, _, _)
\* one part: a named argument sets its field, a positional one the synthetic _argN
inline_part(instance, named, parsed, tail, position) ==
    IF ~parsed.ok THEN Err(parsed.err)
    ELSE IF IsSome(named)
    THEN inline_parts(set_attribute(instance, named[1][1], StringV(parsed.v)), tail, position)
    ELSE inline_parts(set_attribute(instance, <<"_", "a", "r", "g">> \o NatToChars(position),
                                    StringV(parsed.v)),
                      tail, position + 1)

\* the text of one part that is parsed as a string
inline_text(part, named) == IF IsSome(named) THEN Trim(named[1][2]) ELSE Trim(part)

\* the split of one part, then its parse
inline_named(instance, part, named, tail, position) ==
    inline_part(instance, named, parse_string_value(inline_text(part, named)), tail, position)

inline_parts(instance, parts, position) ==
    IF parts = <<>> THEN Ok(instance)
    ELSE inline_named(instance, Head(parts), split_named_argument(Head(parts)),
                      Tail(parts), position)

parse_inline_instance(struct_name, args_str) ==
    inline_parts(TycoInstance(struct_name), split_top_level(args_str, ","), 0)

\* parse_struct_call: a Reference for a struct with a primary key and for a struct
\* that is not (yet) declared, an inline Instance for a struct without primary key
\* Ok(TycoValue::Reference(TycoReference::new(struct_name, pk.value)))
reference_result(struct_name, pk) ==
    IF pk.ok THEN Ok(ReferenceV(TycoReference(struct_name, pk.v.value))) ELSE Err(pk.err)

\* the arm Some(_) of the match: a declared struct that has no primary key
is_inline_struct(def) == IsSome(def) /\ ~has_primary_key(def[1])

\* the call once the pattern has matched: struct_name and args are its two groups
struct_call(struct_name, args, context) ==
    IF is_inline_struct(get_struct(context, struct_name))
    THEN instance_result(parse_inline_instance(struct_name, args))
    ELSE reference_result(struct_name, parse_string_value(Trim(args)))

\* the match of STRUCT_CALL_RE, or the parse error
struct_call_matched(caps, context) ==
    IF IsNone(caps) THEN Err("Parse") ELSE struct_call(caps[1][1], caps[1][2], context)

parse_struct_call(token, type_name, context) ==
    struct_call_matched(struct_call_captures(token), context)

T_bool == <<"b", "o", "o", "l">>

T_int == <<"i", "n", "t">>

T_str == <<"s", "t", "r">>

T_date == <<"d", "a", "t", "e">>

T_time == <<"t", "i", "m", "e">>

T_datetime == <<"d", "a", "t", "e", "t", "i", "m", "e">>

\* eq_ignore_ascii_case("null")
is_null_literal(trimmed) ==
    /\ Len(trimmed) = 4
    /\ trimmed[1] \in {"n", "N"} /\ trimmed[2] \in {"u", "U"}
    /\ trimmed[3] \in {"l", "L"} /\ trimmed[4] \in {"l", "L"}

\* parse_value; the float type is not among the types the model's inputs declare
RECURSIVE parse_value(_, _, _)
RECURSIVE parse_items(_, _, _)
\* values.push(self.parse_value(item.trim(), base, context, span)?), then the rest
parse_item(first, tail, base, context) ==
    IF ~first.ok THEN Err(first.err) ELSE push_front(first.v, parse_items(tail, base, context))

parse_items(items, base, context) ==
    IF items = <<>> THEN Ok(<<>>)
    ELSE IF Trim(Head(items)) = <<>> THEN parse_items(Tail(items), base, context)
    ELSE parse_item(parse_value(Trim(Head(items)), base, context), Tail(items), base, context)

\* Ok(TycoValue::Int(parse_integer(trimmed)?))
int_result(n) == IF n.ok THEN Ok(IntV(n.v)) ELSE Err(n.err)

\* the four arms that go through parse_string_value
text_result(type_name, str) ==
    IF ~str.ok THEN Err(str.err)
    ELSE CASE type_name = T_date -> Ok(TextV("Date", str.v.value))
           [] type_name = T_time -> Ok(TextV("Time", normalize_time(str.v.value)))
           [] type_name = T_datetime -> Ok(TextV("DateTime", normalize_datetime(str.v.value)))
           [] type_name = T_str -> Ok(StringV(str.v))

\* parse_value after let trimmed = token.trim()
parse_trimmed(trimmed, type_name, context) ==
    IF is_null_literal(trimmed) THEN Ok(NullV)
    ELSE CASE type_name = T_bool ->
                 IF trimmed = <<"t", "r", "u", "e">> THEN Ok(BoolV(TRUE))
                 ELSE IF trimmed = <<"f", "a", "l", "s", "e">> THEN Ok(BoolV(FALSE))
                 ELSE Err("Parse")
           [] type_name = T_int -> int_result(parse_integer(trimmed))
           [] type_name \in {T_date, T_time, T_datetime, T_str} ->
                 text_result(type_name, parse_string_value(trimmed))
           [] OTHER ->
                 IF EndsWith(type_name, <<"[", "]">>)
                 THEN IF trimmed = <<"[", "]">> THEN Ok(ArrayV(<<>>))
                      ELSE IF ~StartsWith(trimmed, <<"[">>) \/ ~EndsWith(trimmed, <<"]">>)
                           THEN Err("Parse")
                      ELSE array_result(parse_items(
                               split_top_level(SubSeq(trimmed, 2, Len(trimmed) - 1), ","),
                               SubSeq(type_name, 1, Len(type_name) - 2), context))
                 ELSE parse_struct_call(trimmed, type_name, context)

parse_value(token, type_name, context) == parse_trimmed(Trim(token), type_name, context)

(***************************************************************************)
(* parser.rs: parse_struct_instances.                                      *)
(***************************************************************************)
\* fields.iter().find(|f| f.name == field)
find_field(fields, field) ==
    LET hits == {i \in 1..Len(fields) : fields[i].name = field}
    IN IF hits = {} THEN None ELSE Some(fields[CHOOSE i \in hits : \A j \in hits : i <= j])

\* the loop over the parts of one instance line: Result<TycoInstance>
RECURSIVE instance_parts(_, _, _, _, _, _)
\* instance.set_attribute(name, typed_value), then the remaining parts
set_part(instance, name, typed_value, tail, fields, positional_index, using_named, context) ==
    IF ~typed_value.ok THEN Err(typed_value.err)
    ELSE instance_parts(set_attribute(instance, name, typed_value.v),
                        tail, fields, positional_index, using_named, context)

\* a named part: the field must be one of the schema
named_part(instance, name, value, schema, tail, fields, positional_index, context) ==
    IF IsNone(schema) THEN Err("Parse")
    ELSE set_part(instance, name,
                  parse_value(Trim(value), field_type_name(schema[1]), context),
                  tail, fields, positional_index, TRUE, context)

\* a variant of positional_part that skips a positional part beyond the last field
positional_part_lenient(instance, part, tail, fields, positional_index, using_named, context) ==
    IF using_named THEN Err("Parse")
    ELSE IF positional_index >= Len(fields)
    THEN instance_parts(instance, tail, fields, positional_index, using_named, context)
    ELSE set_part(instance, fields[positional_index + 1].name,
                  parse_value(part, field_type_name(fields[positional_index + 1]), context),
                  tail, fields, positional_index + 1, FALSE, context)

\* a variant of positional_part without the check of using_named
positional_part_unchecked(instance, part, tail, fields, positional_index, using_named, context) ==
    IF positional_index >= Len(fields) THEN Err("Parse")
    ELSE set_part(instance, fields[positional_index + 1].name,
                  parse_value(part, field_type_name(fields[positional_index + 1]), context),
                  tail, fields, positional_index + 1, using_named, context)

\* a positional part: it takes the schema field at positional_index
positional_part(instance, part, tail, fields, positional_index, using_named, context) ==
    IF using_named THEN Err("Parse")
    ELSE IF positional_index >= Len(fields) THEN Err("Parse")
    ELSE set_part(instance, fields[positional_index + 1].name,
                  parse_value(part, field_type_name(fields[positional_index + 1]), context),
                  tail, fields, positional_index + 1, FALSE, context)

\* one non-empty part, named being its split_named_argument
one_part(instance, part, named, tail, fields, positional_index, using_named, context) ==
    IF IsSome(named)
    THEN named_part(instance, named[1][1], named[1][2], find_field(fields, named[1][1]),
                    tail, fields, positional_index, context)
    ELSE positional_part(instance, part, tail, fields, positional_index, using_named, context)

\* one part after part.trim(): an empty one is skipped
trimmed_part(instance, part, tail, fields, positional_index, using_named, context) ==
    IF part = <<>>
    THEN instance_parts(instance, tail, fields, positional_index, using_named, context)
    ELSE one_part(instance, part, split_named_argument(part), tail, fields,
                  positional_index, using_named, context)

instance_parts(instance, parts, fields, positional_index, using_named, context) ==
    IF parts = <<>> THEN Ok(instance)
    ELSE trimmed_part(instance, Trim(Head(parts)), Tail(parts), fields,
                      positional_index, using_named, context)

\* parse_struct_instances: Result<TycoContext>; every line becomes one instance of
\* struct_name, appended to that struct's instance list
RECURSIVE parse_struct_instances(_, _, _)
\* struct_def.add_instance(instance), then the remaining lines
add_parsed_instance(struct_name, def, instance, tail, context) ==
    IF ~instance.ok THEN Err(instance.err)
    ELSE parse_struct_instances(struct_name, tail,
                                put_struct(context, add_instance(def, instance.v)))

\* one instance line, parsed against the fields of the struct as it is now
parse_instance_line(struct_name, def, line, tail, context) ==
    IF IsNone(def) THEN Err("UnknownStruct")
    ELSE add_parsed_instance(struct_name, def[1],
                             instance_parts(TycoInstance(struct_name),
                                            split_top_level(line, ","),
                                            def[1].fields, 0, FALSE, context),
                             tail, context)

parse_struct_instances(struct_name, instance_lines, context) ==
    IF instance_lines = <<>> THEN Ok(context)
    ELSE parse_instance_line(struct_name, get_struct(context, struct_name),
                             Head(instance_lines), Tail(instance_lines), context)

(***************************************************************************)
(* utils.rs: strip_inline_comment, has_unclosed_delimiter; parser.rs: the  *)
(* three line patterns.                                                    *)
(***************************************************************************)
\* the scan of strip_inline_comment: index of the first "#" outside quotes, 0 if none
RECURSIVE comment_scan(_, _, _, _)
comment_scan(line, idx, in_quotes, quote_char) ==
    IF idx > Len(line) THEN 0
    ELSE LET ch == line[idx]
         IN IF ~in_quotes /\ ch \in {"\"", "'"}
            THEN comment_scan(line, idx + 1, TRUE, ch)
            ELSE IF in_quotes /\ ch = quote_char /\ (idx = 1 \/ line[idx - 1] # "\\")
            THEN comment_scan(line, idx + 1, FALSE, "")
            ELSE IF ch = "#" /\ ~in_quotes THEN idx
            ELSE comment_scan(line, idx + 1, in_quotes, quote_char)

strip_inline_comment(line) ==
    LET hash == comment_scan(line, 1, FALSE, "")
    IN IF hash > 0 THEN TrimEnd(SubSeq(line, 1, hash - 1)) ELSE TrimEnd(line)

has_unclosed_delimiter(line, delimiter) ==
    LET start == FindSub(line, delimiter, 1)
    IN start > 0 /\ FindSub(line, delimiter, start + Len(delimiter)) = 0

IsIdentChar(ch) == IsAlphanumeric(ch) \/ ch = "_"

IsSpace(ch) == ch \in Whitespace

\* first position at or after i whose character is no identifier character
IdentEnd(s, i) ==
    LET stops == {j \in i..Len(s) : ~IsIdentChar(s[j])}
    IN IF stops = {} THEN Len(s) + 1 ELSE CHOOSE j \in stops : \A k \in stops : j <= k

\* first position at or after i whose character is no whitespace
SpaceEnd(s, i) ==
    LET stops == {j \in i..Len(s) : ~IsSpace(s[j])}
    IN IF stops = {} THEN Len(s) + 1 ELSE CHOOSE j \in stops : \A k \in stops : j <= k

\* STRUCT_DEF_RE ^([A-Z][A-Za-z0-9_]*)\s*:$ : Option<name>
struct_def_captures(s) ==
    IF s = <<>> \/ s[1] \notin UpperLetters THEN None
    ELSE LET e == IdentEnd(s, 1)
             c == SpaceEnd(s, e)
         IN IF c = Len(s) /\ s[c] = ":" THEN Some(SubSeq(s, 1, e - 1)) ELSE None

\* what follows the colon of a field or default-update line, (?:\s+(.*))?$ :
\* Option<value>, the value being empty when the group is absent
after_colon(s, colon) ==
    IF colon = Len(s) THEN Some(<<>>)
    ELSE IF ~IsSpace(s[colon + 1]) \/ Contains(SubSeq(s, colon + 1, Len(s)), "\n") THEN None
    ELSE Some(SubSeq(s, SpaceEnd(s, colon + 1), Len(s)))

\* FIELD_RE: Option<[modifier, type_name, is_array, attr_name, value]>
field_captures(s) ==
    LET m == SpaceEnd(s, 1)
        has_mod == m <= Len(s) /\ s[m] \in {"*", "?"}
        t == IF has_mod THEN m + 1 ELSE m
        te == IdentEnd(s, t)
        is_array == te + 1 <= Len(s) /\ s[te] = "[" /\ s[te + 1] = "]"
        sp == IF is_array THEN te + 2 ELSE te
        a == SpaceEnd(s, sp)
        ae == IdentEnd(s, a)
        colon == SpaceEnd(s, ae)
    IN IF /\ t <= Len(s) /\ IsAlphabetic(s[t])
          /\ a > sp
          /\ a <= Len(s) /\ (s[a] \in LowerLetters \/ s[a] = "_")
          /\ colon <= Len(s) /\ s[colon] = ":"
          /\ IsSome(after_colon(s, colon))
       THEN Some([modifier |-> IF has_mod THEN s[m] ELSE "",
                  type_name |-> SubSeq(s, t, te - 1),
                  is_array |-> is_array,
                  attr_name |-> SubSeq(s, a, ae - 1),
                  value |-> after_colon(s, colon)[1]])
       ELSE None

\* DEFAULT_UPDATE_RE: Option<[field_name, value]>
default_update_captures(s) ==
    LET a == SpaceEnd(s, 1)
        ae == IdentEnd(s, a)
        colon == SpaceEnd(s, ae)
    IN IF /\ a > 1
          /\ a <= Len(s) /\ (s[a] \in LowerLetters \/ s[a] = "_")
          /\ colon <= Len(s) /\ s[colon] = ":"
          /\ IsSome(after_colon(s, colon))
       THEN Some([field_name |-> SubSeq(s, a, ae - 1), value |-> after_colon(s, colon)[1]])
       ELSE None

(***************************************************************************)
(* context.rs: the coercion pass (resolve_inline_instances).               *)
(***************************************************************************)
\* s.value.parse::<i64>().map(TycoValue::Int).map_err(..)
int_coerced(n) == IF n.ok THEN Ok(IntV(n.v)) ELSE Err("Parse")

\* coerce_value: Result<TycoValue>
coerce_value(value, schema) ==
    IF schema.is_array THEN Ok(value)
    ELSE IF schema.type_name = T_int /\ value.tag = "String"
    THEN int_coerced(from_str_radix(value.s.value, 10))
    ELSE IF schema.type_name = T_bool /\ value.tag = "String"
    THEN Ok(BoolV(value.s.value \in {<<"t", "r", "u", "e">>, <<"T", "r", "u", "e">>}))
    ELSE Ok(value)

RECURSIVE nat_value(_, _)
nat_value(digits, acc) ==
    IF digits = <<>> THEN acc
    ELSE nat_value(Tail(digits), acc * 10 + DigitValue(Head(digits), 10))

\* key.strip_prefix("_arg").and_then(|rest| rest.parse::<usize>().ok()): -1 for None
positional_idx(key) ==
    IF ~StartsWith(key, <<"_", "a", "r", "g">>) THEN -1
    ELSE LET rest == SubSeq(key, 5, Len(key))
             digits == IF rest # <<>> /\ Head(rest) = "+" THEN Tail(rest) ELSE rest
         IN IF digits = <<>> \/ \E i \in 1..Len(digits) : ~IsDigit(digits[i]) THEN -1
            ELSE nat_value(digits, 0)

\* the (idx, key) pairs of the synthetic positional names, sorted by idx (stable)
RECURSIVE insert_sorted(_, _)
insert_sorted(sorted, pair) ==
    IF sorted = <<>> THEN <<pair>>
    ELSE IF pair[1] < Head(sorted)[1] THEN <<pair>> \o sorted
    ELSE <<Head(sorted)>> \o insert_sorted(Tail(sorted), pair)

RECURSIVE positional_pairs(_, _)
positional_pairs(keys, sorted) ==
    IF keys = <<>> THEN sorted
    ELSE positional_pairs(Tail(keys),
                          IF positional_idx(Head(keys)) >= 0
                          THEN insert_sorted(sorted, <<positional_idx(Head(keys)), Head(keys)>>)
                          ELSE sorted)

\* the first loop of apply_schema: rebind the positional names to schema fields
RECURSIVE rebind_positional(_, _, _)
\* the value moves from the key it has to the field's name, coerced
rebind(instance, key, name, coerced) ==
    IF ~coerced.ok THEN Err(coerced.err)
    ELSE Ok(set_attribute(remove_attribute(instance, key), name, coerced.v))

\* the remaining pairs, on the instance the pair before left
rebind_remaining(rebound, positional, fields) ==
    IF ~rebound.ok THEN Err(rebound.err) ELSE rebind_positional(rebound.v, positional, fields)

\* one (idx, placeholder) pair: skipped when the schema has no field at idx
rebind_pair(instance, idx, placeholder, fields) ==
    IF idx + 1 > Len(fields) \/ ~map_contains_key(instance.fields, placeholder)
    THEN Ok(instance)
    ELSE rebind(instance, placeholder, fields[idx + 1].name,
                coerce_value(get_attribute(instance, placeholder)[1], fields[idx + 1]))

rebind_positional(instance, positional, fields) ==
    IF positional = <<>> THEN Ok(instance)
    ELSE rebind_remaining(rebind_pair(instance, Head(positional)[1], Head(positional)[2], fields),
                          Tail(positional), fields)

\* the second loop of apply_schema: the instance's own value, coerced, or else the
\* field's configured default
RECURSIVE fill_fields(_, _)
\* the remaining fields, on the instance the field before left
fill_remaining(filled, fields) ==
    IF ~filled.ok THEN Err(filled.err) ELSE fill_fields(filled.v, fields)

\* one schema field: the instance's own value is coerced; a field the instance
\* lacks takes the default, if the schema has one
fill_field(instance, field) ==
    IF map_contains_key(instance.fields, field.name)
    THEN rebind(instance, field.name, field.name,
                coerce_value(get_attribute(instance, field.name)[1], field))
    ELSE IF IsSome(field.default_value)
    THEN Ok(set_attribute(instance, field.name, field.default_value[1]))
    ELSE Ok(instance)

fill_fields(instance, fields) ==
    IF fields = <<>> THEN Ok(instance)
    ELSE fill_remaining(fill_field(instance, Head(fields)), Tail(fields))

RECURSIVE resolve_value(_, _, _)
RECURSIVE resolve_items(_, _, _)
RECURSIVE resolve_attributes(_, _, _)
RECURSIVE apply_schema(_, _, _, _)
\* depth counts the calls of apply_schema that are on the stack
\* the arm Instance of resolve_value: an instance of an unknown struct stays as it is
resolve_instance(value, schema, schemas, depth) ==
    IF IsNone(schema) THEN Ok(value)
    ELSE instance_result(apply_schema(value.inst, schema[1], schemas, depth + 1))

\* resolve_value: Result<TycoValue>
resolve_value(value, schemas, depth) ==
    CASE value.tag = "Array" -> array_result(resolve_items(value.items, schemas, depth))
      [] value.tag = "Instance" ->
            resolve_instance(value, map_get(schemas, value.inst.struct_name), schemas, depth)
      [] OTHER -> Ok(value)

\* the item is resolved in place, then the remaining items
resolve_item(first, tail, schemas, depth) ==
    IF ~first.ok THEN Err(first.err)
    ELSE push_front(first.v, resolve_items(tail, schemas, depth))

resolve_items(items, schemas, depth) ==
    IF items = <<>> THEN Ok(<<>>)
    ELSE resolve_item(resolve_value(Head(items), schemas, depth), Tail(items), schemas, depth)

\* the value of one key is resolved in place, then the remaining entries
resolve_attribute(key, first, tail, schemas, depth) ==
    IF ~first.ok THEN Err(first.err)
    ELSE push_front([k |-> key, v |-> first.v], resolve_attributes(tail, schemas, depth))

\* for value in instance.attributes_mut().values_mut() { resolve_value(value) }
resolve_attributes(attributes, schemas, depth) ==
    IF attributes = <<>> THEN Ok(<<>>)
    ELSE resolve_attribute(Head(attributes).k,
                           resolve_value(Head(attributes).v, schemas, depth),
                           Tail(attributes), schemas, depth)

\* the instance with its attribute values replaced by the resolved ones
with_attributes(instance, attributes) ==
    IF attributes.ok THEN Ok([instance EXCEPT !.fields = attributes.v]) ELSE Err(attributes.err)

\* the end of apply_schema: the nested values of the ordered instance
resolve_nested(ordered, schemas, depth) ==
    with_attributes(ordered, resolve_attributes(ordered.fields, schemas, depth))

\* apply_schema after its second loop: enforce_order_from_schema, then the nested values
apply_order(filled, schema, schemas, depth) ==
    IF ~filled.ok THEN Err(filled.err)
    ELSE resolve_nested(enforce_order_from_schema(filled.v, schema.fields), schemas, depth)

\* apply_schema after its first loop: the loop over the schema fields
apply_fields(rebound, schema, schemas, depth) ==
    IF ~rebound.ok THEN Err(rebound.err)
    ELSE apply_order(fill_fields(rebound.v, schema.fields), schema, schemas, depth)

\* apply_schema: Result<TycoInstance>.  The recursion through resolve_value has no
\* bound of its own; a call nested deeper than the stack holds overflows it.
apply_schema(instance, schema, schemas, depth) ==
    IF depth > MaxDepth THEN Err("overflow")
    ELSE apply_fields(rebind_positional(instance,
                                        positional_pairs(instance.field_order, <<>>),
                                        schema.fields),
                      schema, schemas, depth)

\* the loop over the globals
coerce_globals(globals, schemas) == resolve_attributes(globals, schemas, 0)

\* the loop over the instances of one struct
RECURSIVE coerce_instances(_, _, _)
\* the instance is coerced in place, then the remaining instances
coerce_instance(first, tail, schema, schemas) ==
    IF ~first.ok THEN Err(first.err)
    ELSE push_front(first.v, coerce_instances(tail, schema, schemas))

coerce_instances(instances, schema, schemas) ==
    IF instances = <<>> THEN Ok(<<>>)
    ELSE coerce_instance(apply_schema(Head(instances), schema, schemas, 1),
                         Tail(instances), schema, schemas)

\* schema_snapshot.get(name), or else the struct itself
schema_of(schema, struct_def) == IF IsSome(schema) THEN schema[1] ELSE struct_def

RECURSIVE coerce_structs(_, _)
\* the struct keeps its coerced instances, then the remaining structs
coerce_struct(entry, instances, tail, schema_snapshot) ==
    IF ~instances.ok THEN Err(instances.err)
    ELSE push_front([k |-> entry.k, v |-> [entry.v EXCEPT !.instances = instances.v]],
                    coerce_structs(tail, schema_snapshot))

\* the loop over the structs; the schema of each is the one of the snapshot
coerce_structs(structs, schema_snapshot) ==
    IF structs = <<>> THEN Ok(<<>>)
    ELSE coerce_struct(Head(structs),
                       coerce_instances(Head(structs).v.instances,
                                        schema_of(map_get(schema_snapshot, Head(structs).k),
                                                  Head(structs).v),
                                        schema_snapshot),
                       Tail(structs), schema_snapshot)

\* the context a pass leaves: its globals and its structs
context_of(globals, structs) ==
    IF structs.ok THEN Ok([globals |-> globals, structs |-> structs.v]) ELSE Err(structs.err)

\* the second loop runs only when the first returned no error
coerce_after_globals(globals, ctx) ==
    IF ~globals.ok THEN Err(globals.err)
    ELSE context_of(globals.v, coerce_structs(ctx.structs, ctx.structs))

\* TycoContext::resolve_inline_instances: Result<TycoContext>
resolve_inline_instances(ctx) ==
    coerce_after_globals(coerce_globals(ctx.globals, ctx.structs), ctx)

(***************************************************************************)
(* context.rs: the indexing pass and the reference-resolution pass.        *)
(***************************************************************************)
\* a variant of the loop of build_primary_index in which the first instance of a
\* key keeps the key
RECURSIVE index_first_instances(_, _, _)
index_first_instances(index, instances, pk_field) ==
    IF instances = <<>> THEN index
    ELSE LET value == get_attribute(Head(instances), pk_field)
         IN index_first_instances(
                IF IsSome(value) /\ ~map_contains_key(index, to_template_text(value[1]))
                THEN map_insert(index, to_template_text(value[1]), Head(instances))
                ELSE index,
                Tail(instances), pk_field)

\* the loop of build_primary_index: a later instance overwrites an equal key
RECURSIVE index_instances(_, _, _)
index_instances(index, instances, pk_field) ==
    IF instances = <<>> THEN index
    ELSE LET value == get_attribute(Head(instances), pk_field)
         IN index_instances(IF IsSome(value)
                            THEN map_insert(index, to_template_text(value[1]), Head(instances))
                            ELSE index,
                            Tail(instances), pk_field)

build_primary_index(struct) ==
    [struct EXCEPT !.primary_index =
        IF IsNone(struct.primary_key_field) THEN <<>>
        ELSE index_instances(<<>>, struct.instances, struct.primary_key_field[1])]

find_by_primary_key(struct, key) == map_get(struct.primary_index, key)

\* for struct_def in self.structs_mut().values_mut() { build_primary_index() }
build_indexes(ctx) ==
    [ctx EXCEPT !.structs =
        [i \in 1..Len(ctx.structs) |-> [k |-> ctx.structs[i].k,
                                        v |-> build_primary_index(ctx.structs[i].v)]]]

\* a faulty lookup: the first instance of the struct, whatever its key
first_instance(struct_def, reference) ==
    IF struct_def.instances = <<>> THEN None ELSE Some(struct_def.instances[1])

\* the payload a Reference gets: a clone of the indexed instance
resolved_payload(struct_def, reference) == find_by_primary_key(struct_def, reference.primary_key)

\* a faulty resolution: the key is looked up and the payload never stored
leave_unresolved(reference, pk) ==
    IF IsNone(pk) THEN Err("Reference") ELSE Ok(ReferenceV(reference))

\* reference.resolved = Some(Box::new(pk)), or the Reference error
resolve_to(reference, pk) ==
    IF IsNone(pk) THEN Err("Reference")
    ELSE Ok(ReferenceV([reference EXCEPT !.resolved = Some(pk[1])]))

\* a variant of the arm Reference of visit that puts the instance in the place of
\* the Reference
visit_reference_inlined(reference, struct_def) ==
    IF IsNone(struct_def) THEN Err("UnknownStruct")
    ELSE IF IsNone(resolved_payload(struct_def[1], reference)) THEN Err("Reference")
    ELSE Ok(InstanceV(resolved_payload(struct_def[1], reference)[1]))

\* the arm Reference of visit
visit_reference(reference, struct_def) ==
    IF IsNone(struct_def) THEN Err("UnknownStruct")
    ELSE resolve_to(reference, resolved_payload(struct_def[1], reference))

RECURSIVE visit(_, _)
RECURSIVE visit_items(_, _)
RECURSIVE visit_attributes(_, _)
\* visit: Result<TycoValue>
visit(value, structs) ==
    CASE value.tag = "Reference" ->
            visit_reference(value.ref, map_get(structs, value.ref.struct_name))
      [] value.tag = "Array" -> array_result(visit_items(value.items, structs))
      [] value.tag = "Instance" ->
            instance_result(with_attributes(value.inst,
                                            visit_attributes(value.inst.fields, structs)))
      [] OTHER -> Ok(value)

\* the item is visited in place, then the remaining items
visit_item(first, tail, structs) ==
    IF ~first.ok THEN Err(first.err) ELSE push_front(first.v, visit_items(tail, structs))

visit_items(items, structs) ==
    IF items = <<>> THEN Ok(<<>>)
    ELSE visit_item(visit(Head(items), structs), Tail(items), structs)

\* the value of one key is visited in place, then the remaining entries
visit_attribute(key, first, tail, structs) ==
    IF ~first.ok THEN Err(first.err)
    ELSE push_front([k |-> key, v |-> first.v], visit_attributes(tail, structs))

\* for value in instance.attributes_mut().values_mut() { visit(value) }
visit_attributes(attributes, structs) ==
    IF attributes = <<>> THEN Ok(<<>>)
    ELSE visit_attribute(Head(attributes).k, visit(Head(attributes).v, structs),
                         Tail(attributes), structs)

RECURSIVE visit_instances(_, _)
\* the instance keeps its visited attributes, then the remaining instances
visit_instance(first, tail, structs) ==
    IF ~first.ok THEN Err(first.err) ELSE push_front(first.v, visit_instances(tail, structs))

\* the loop over the instances of one struct
visit_instances(instances, structs) ==
    IF instances = <<>> THEN Ok(<<>>)
    ELSE visit_instance(with_attributes(Head(instances),
                                        visit_attributes(Head(instances).fields, structs)),
                        Tail(instances), structs)

RECURSIVE visit_structs(_, _)
\* the struct keeps its visited instances, then the remaining structs
visit_struct(entry, instances, tail, struct_snapshot) ==
    IF ~instances.ok THEN Err(instances.err)
    ELSE push_front([k |-> entry.k, v |-> [entry.v EXCEPT !.instances = instances.v]],
                    visit_structs(tail, struct_snapshot))

\* the loop over the structs
visit_structs(structs, struct_snapshot) ==
    IF structs = <<>> THEN Ok(<<>>)
    ELSE visit_struct(Head(structs), visit_instances(Head(structs).v.instances, struct_snapshot),
                      Tail(structs), struct_snapshot)

\* the second loop runs only when the first returned no error
visit_after_globals(globals, ctx) ==
    IF ~globals.ok THEN Err(globals.err)
    ELSE context_of(globals.v, visit_structs(ctx.structs, ctx.structs))

\* TycoContext::resolve_references: Result<TycoContext>
resolve_references(ctx) ==
    visit_after_globals(visit_attributes(ctx.globals, ctx.structs), ctx)

(***************************************************************************)
(* context.rs: the template-rendering pass as one function.  The globals   *)
(* are rendered first, each against the snapshot that holds the globals    *)
(* rendered before it; then every instance, field by field.                *)
(***************************************************************************)
\* one global: rendered against the snapshot
render_global(ctx, snapshot, key) ==
    render_templates(map_get(ctx.globals, key)[1], snapshot, None)

\* the rendered global is stored in the context and cloned into the snapshot
store_global(ctx, snapshot, key, value) ==
    [ctx |-> [ctx EXCEPT !.globals = map_insert(@, key, value)],
     snapshot |-> [snapshot EXCEPT !.globals = map_insert(@, key, value)]]

RECURSIVE render_globals(_, _, _)
\* the remaining keys, on the context and snapshot the key before left
render_remaining_globals(stored, keys) == render_globals(stored.ctx, stored.snapshot, keys)

render_globals(ctx, snapshot, keys) ==
    IF keys = <<>> THEN [ctx |-> ctx, snapshot |-> snapshot]
    ELSE render_remaining_globals(
             store_global(ctx, snapshot, Head(keys), render_global(ctx, snapshot, Head(keys))),
             Tail(keys))

\* the body of the loop over the fields of one stored instance
render_stored_field(instance, instance_snapshot, key, snapshot) ==
    IF map_contains_key(instance.fields, key)
    THEN [instance EXCEPT !.fields =
            map_insert(@, key, render_templates(get_attribute(instance, key)[1], snapshot,
                                                Some(instance_snapshot)))]
    ELSE instance

RECURSIVE render_stored_instance(_, _, _, _)
\* instance_snapshot = instance.clone(), then the remaining keys
render_remaining_stored(after, keys, snapshot) ==
    render_stored_instance(after, after, keys, snapshot)

render_stored_instance(instance, instance_snapshot, keys, snapshot) ==
    IF keys = <<>> THEN instance
    ELSE render_remaining_stored(
             render_stored_field(instance, instance_snapshot, Head(keys), snapshot),
             Tail(keys), snapshot)

\* a faulty loop: the clone taken before the first field is never renewed
stale_snapshot(instance_snapshot, instance) == instance_snapshot

\* instance_snapshot = instance.clone(): the clone the next field is rendered against
refresh_snapshot(instance_snapshot, instance) == instance

\* *slot = instance.clone(), or a push when the snapshot has no such slot
store_in_snapshot(snapshot, name, idx, instance) ==
    LET def == get_struct(snapshot, name)
    IN IF IsNone(def) THEN snapshot
       ELSE put_struct(snapshot,
                       [def[1] EXCEPT !.instances =
                           IF idx <= Len(@) THEN [@ EXCEPT ![idx] = instance]
                           ELSE Append(@, instance)])

(***************************************************************************)
(* parser.rs: parse_lines, one loop iteration at a time.  ps is the loop's *)
(* state [context, state, current_struct, instance_lines]; text is the     *)
(* physical line at idx and rest the physical lines after it.  A step      *)
(* yields [ok, err, ps, used, starved, kind]: used counts the lines of     *)
(* rest the iteration consumed, starved says that it stopped consuming     *)
(* only because the input ended, kind names the branch taken.              *)
(***************************************************************************)
step_ok(ps, used, starved, kind) ==
    [ok |-> TRUE, err |-> "", ps |-> ps, used |-> used, starved |-> starved, kind |-> kind]

step_err(ps, err, kind) ==
    [ok |-> FALSE, err |-> err, ps |-> ps, used |-> 0, starved |-> FALSE, kind |-> kind]

\* accumulate_multiline: [value, used, starved]
RECURSIVE accumulate_multiline(_, _, _, _)
accumulate_multiline(value_str, rest, delimiter, used) ==
    IF ~has_unclosed_delimiter(value_str, delimiter)
    THEN [value |-> value_str, used |-> used, starved |-> FALSE]
    ELSE IF rest = <<>> THEN [value |-> value_str, used |-> used, starved |-> TRUE]
    ELSE accumulate_multiline(value_str \o <<"\n">> \o Head(rest), Tail(rest), delimiter, used + 1)

\* the multi-line scan shared by the three branches that read a literal
complete_literal(value_str, rest, used) ==
    IF has_unclosed_delimiter(value_str, TripleDouble) \/ has_unclosed_delimiter(value_str, TripleSingle)
    THEN accumulate_multiline(value_str, rest,
                              IF FindSub(value_str, TripleDouble, 1) > 0 THEN TripleDouble
                              ELSE TripleSingle,
                              used)
    ELSE [value |-> value_str, used |-> used, starved |-> FALSE]

\* a variant of the backslash continuation that joins the next lines and
\* leaves them to the loop as well
RECURSIVE join_continuations_reread(_, _, _)
join_continuations_reread(inst_line, rest, used) ==
    IF ~EndsWith(inst_line, <<"\\">>)
    THEN [value |-> inst_line, used |-> used, starved |-> FALSE]
    ELSE IF rest = <<>> THEN [value |-> inst_line, used |-> used, starved |-> TRUE]
    ELSE join_continuations_reread(SubSeq(inst_line, 1, Len(inst_line) - 1) \o <<" ">>
                                       \o Trim(strip_inline_comment(Head(rest))),
                                   Tail(rest), used)

\* the backslash continuation of an instance bullet: [value, used, starved]
RECURSIVE join_continuations(_, _, _)
join_continuations(inst_line, rest, used) ==
    IF ~EndsWith(inst_line, <<"\\">>)
    THEN [value |-> inst_line, used |-> used, starved |-> FALSE]
    ELSE IF rest = <<>> THEN [value |-> inst_line, used |-> used, starved |-> TRUE]
    ELSE join_continuations(SubSeq(inst_line, 1, Len(inst_line) - 1) \o <<" ">>
                                \o Trim(strip_inline_comment(Head(rest))),
                            Tail(rest), used + 1)

\* whether the flush of a struct header is due: the guard of parser.rs:156
header_flushes(ps) == IsSome(ps.current_struct) /\ ps.state = "InStructInstances"

\* a variant of the struct header that opens the struct without creating it
open_struct_undeclared(ps, name, flushed) ==
    IF ~flushed.ok THEN step_err(ps, flushed.err, "header")
    ELSE step_ok([context |-> flushed.v,
                  state |-> "InStructSchema",
                  current_struct |-> Some(name),
                  instance_lines |-> IF header_flushes(ps) THEN <<>> ELSE ps.instance_lines],
                 0, FALSE, "header")

\* the struct header after the flush: the struct is created unless it exists
open_struct(ps, name, flushed) ==
    IF ~flushed.ok THEN step_err(ps, flushed.err, "header")
    ELSE step_ok([context |-> IF IsNone(get_struct(flushed.v, name))
                              THEN add_struct(flushed.v, TycoStruct(name))
                              ELSE flushed.v,
                  state |-> "InStructSchema",
                  current_struct |-> Some(name),
                  instance_lines |-> IF header_flushes(ps) THEN <<>> ELSE ps.instance_lines],
                 0, FALSE, "header")

\* the struct header branch
on_struct_header(ps, name) ==
    open_struct(ps, name,
                IF header_flushes(ps)
                THEN parse_struct_instances(ps.current_struct[1], ps.instance_lines, ps.context)
                ELSE Ok(ps.context))

\* struct_def.add_field(field) with the parsed default
declare_field(ps, field, has_default, parsed, def, literal) ==
    IF ~parsed.ok THEN step_err(ps, parsed.err, "field")
    ELSE IF IsNone(def) THEN step_err(ps, "UnknownStruct", "field")
    ELSE step_ok([ps EXCEPT
                     !.context = put_struct(@, add_field(def[1],
                         [field EXCEPT !.default_value =
                             IF has_default THEN Some(parsed.v) ELSE None])),
                     !.state = "InStructSchema"],
                 literal.used, literal.starved, "field")

\* an indented field line: a schema field of the open struct
schema_field(ps, field, value_str, literal) ==
    declare_field(ps, field, value_str # <<>>,
                  IF value_str # <<>>
                  THEN parse_value(value_str, field_type_name(field), ps.context)
                  ELSE Ok(NullV),
                  get_struct(ps.context, ps.current_struct[1]), literal)

\* context.set_global(attr_name, value)
declare_global(ps, attr_name, value, literal) ==
    IF ~value.ok THEN step_err(ps, value.err, "global")
    ELSE step_ok([ps EXCEPT !.context = set_global(@, attr_name, value.v),
                            !.state = "TopLevel"],
                 literal.used, literal.starved, "global")

\* the field line once its literal is complete and its comment stripped
field_line(ps, is_global_line, caps, value_str, literal) ==
    IF ~is_global_line /\ IsNone(ps.current_struct) THEN step_err(ps, "Parse", "field")
    ELSE IF ~is_global_line
    THEN schema_field(ps,
                      FieldSchema(caps.attr_name, caps.type_name, caps.modifier = "*",
                                  caps.modifier = "?", caps.is_array, None),
                      value_str, literal)
    ELSE declare_global(ps, caps.attr_name,
                        parse_value(value_str,
                                    field_type_descriptor(caps.type_name, caps.is_array),
                                    ps.context),
                        literal)

\* the field line once its literal is complete
field_literal(ps, is_global_line, caps, literal) ==
    field_line(ps, is_global_line, caps, strip_inline_comment(literal.value), literal)

\* the field declaration branch: a global when the line starts at column one
on_field(ps, text, caps, rest) ==
    field_literal(ps, ~IsSpace(text[1]), caps, complete_literal(caps.value, rest, 0))

\* struct_def.set_default(field_name, default_value)
update_default(ps, def, field_name, is_empty, parsed, literal) ==
    IF ~parsed.ok THEN step_err(ps, parsed.err, "default")
    ELSE step_ok([ps EXCEPT !.context = put_struct(@,
                     set_default(def, field_name, IF is_empty THEN None ELSE Some(parsed.v)))],
                 literal.used, literal.starved, "default")

\* a variant of the field lookup of the default update that passes over an update
\* of an undeclared field
default_of_field_lenient(ps, def, field_name, field_schema, value_str, literal) ==
    IF IsNone(field_schema) THEN step_ok(ps, literal.used, literal.starved, "default")
    ELSE update_default(ps, def, field_name, Trim(value_str) = <<>>,
                        IF Trim(value_str) = <<>> THEN Ok(NullV)
                        ELSE parse_value(value_str, field_type_name(field_schema[1]), ps.context),
                        literal)

\* the default update once the field is looked up in the open struct
default_of_field(ps, def, field_name, field_schema, value_str, literal) ==
    IF IsNone(field_schema) THEN step_err(ps, "Parse", "default")
    ELSE update_default(ps, def, field_name, Trim(value_str) = <<>>,
                        IF Trim(value_str) = <<>> THEN Ok(NullV)
                        ELSE parse_value(value_str, field_type_name(field_schema[1]), ps.context),
                        literal)

\* the default update once the open struct is looked up
default_in_struct(ps, def, field_name, value_str, literal) ==
    IF IsNone(def) THEN step_err(ps, "UnknownStruct", "default")
    ELSE default_of_field(ps, def[1], field_name, find_field(def[1].fields, field_name),
                          value_str, literal)

\* the default update once its literal is complete
default_literal(ps, caps, literal) ==
    default_in_struct(ps, get_struct(ps.context, ps.current_struct[1]), caps.field_name,
                      strip_inline_comment(literal.value), literal)

\* the default-update branch, taken only while a struct is open
on_default_update(ps, caps, rest) ==
    default_literal(ps, caps, complete_literal(caps.value, rest, 0))

\* trim_start_matches('-')
RECURSIVE trim_dashes(_)
trim_dashes(s) == IF s # <<>> /\ Head(s) = "-" THEN trim_dashes(Tail(s)) ELSE s

\* the instance bullet branch: the raw text is buffered, not parsed
\* instance_lines.push(inst_line)
buffer_bullet(ps, joined, literal) ==
    step_ok([ps EXCEPT !.state = "InStructInstances",
                       !.instance_lines = Append(@, literal.value)],
            literal.used, joined.starved \/ literal.starved, "bullet")

\* the bullet once its backslash continuations are joined
bullet_joined(ps, joined, rest) ==
    buffer_bullet(ps, joined,
                  complete_literal(joined.value, SubSeq(rest, joined.used + 1, Len(rest)),
                                   joined.used))

\* a variant of the instance bullet branch that buffers the bullet whether or not a
\* struct is open
on_bullet_unscoped(ps, trimmed_ws, rest) ==
    bullet_joined(ps, join_continuations(Trim(trim_dashes(trimmed_ws)), rest, 0), rest)

\* the instance bullet branch, an error while no struct is open
on_bullet(ps, trimmed_ws, rest) ==
    IF IsNone(ps.current_struct) THEN step_err(ps, "Parse", "bullet")
    ELSE bullet_joined(ps, join_continuations(Trim(trim_dashes(trimmed_ws)), rest, 0), rest)

\* the bare continuation branch
on_continuation(ps, trimmed_ws) ==
    step_ok([ps EXCEPT !.instance_lines =
                IF @ = <<>> THEN @
                ELSE [@ EXCEPT ![Len(@)] = @ \o <<" ">> \o trimmed_ws]],
            0, FALSE, "continuation")

\* one iteration of the while loop of parse_lines, in the precedence of the source
\* the branches of one iteration in the precedence of the source; header, field and
\* update are the matches of the three line patterns
branch(ps, text, rest, trimmed_ws, header, field, update) ==
    IF trimmed_ws = <<>> THEN step_ok(ps, 0, FALSE, "blank")
    ELSE IF IsSome(header) THEN on_struct_header(ps, header[1])
    ELSE IF IsSome(field) THEN on_field(ps, text, field[1], rest)
    ELSE IF IsSome(update) /\ IsSome(ps.current_struct)
         THEN on_default_update(ps, update[1], rest)
    ELSE IF StartsWith(trimmed_ws, <<"-">>) THEN on_bullet(ps, trimmed_ws, rest)
    ELSE IF ps.state = "InStructInstances" /\ IsSpace(text[1])
         THEN on_continuation(ps, trimmed_ws)
    ELSE step_ok(ps, 0, FALSE, "unmatched")

\* the iteration once the comment is stripped and the line trimmed
dispatch_trimmed(ps, text, rest, trimmed_ws) ==
    branch(ps, text, rest, trimmed_ws, struct_def_captures(trimmed_ws), field_captures(text),
           default_update_captures(text))

dispatch_line(ps, text, rest) ==
    dispatch_trimmed(ps, text, rest, Trim(strip_inline_comment(text)))

\* the flush after the loop: Result<TycoContext>
final_flush(ps) ==
    IF IsSome(ps.current_struct) /\ ps.instance_lines # <<>>
    THEN parse_struct_instances(ps.current_struct[1], ps.instance_lines, ps.context)
    ELSE Ok(ps.context)

\* the state of parse_lines before the first line
InitialParse ==
    [context |-> TycoContext, state |-> "TopLevel", current_struct |-> None,
     instance_lines |-> <<>>]

\* the whole loop over a document, then the final flush: Result<TycoContext>
RECURSIVE parse_loop(_, _)
\* the loop goes on after the lines the iteration consumed
parse_after(step, lines) ==
    IF ~step.ok THEN Err(step.err)
    ELSE parse_loop(step.ps, SubSeq(lines, 2 + step.used, Len(lines)))

parse_loop(ps, lines) ==
    IF lines = <<>> THEN final_flush(ps)
    ELSE parse_after(dispatch_line(ps, Head(lines), Tail(lines)), lines)

\* the loop of render_templates over the stored instances, from instance i of
\* struct s on: the rendered context
RECURSIVE render_instances(_, _, _, _)
\* the rendered instance stays in the context and is cloned into the snapshot
render_next_instance(ctx, snapshot, s, i, rendered) ==
    render_instances([ctx EXCEPT !.structs[s].v.instances[i] = rendered],
                     store_in_snapshot(snapshot, ctx.structs[s].k, i, rendered),
                     s, i + 1)

\* one stored instance, rendered field by field from a first clone of itself
render_whole_instance(instance, snapshot) ==
    render_stored_instance(instance, instance, instance.field_order, snapshot)

render_instances(ctx, snapshot, s, i) ==
    IF s > Len(ctx.structs) THEN ctx
    ELSE IF i > Len(ctx.structs[s].v.instances) THEN render_instances(ctx, snapshot, s + 1, 1)
    ELSE render_next_instance(ctx, snapshot, s, i,
                              render_whole_instance(ctx.structs[s].v.instances[i], snapshot))

\* the struct loop, on the context and snapshot the globals left
render_structs(globals) == render_instances(globals.ctx, globals.snapshot, 1, 1)

\* TycoContext::render_templates
render_context(ctx) == render_structs(render_globals(ctx, ctx, map_keys(ctx.globals)))

(***************************************************************************)
(* The state of one parse call.                                            *)
(*   pc              where the call is: "lines" (the loop of parse_lines), *)
(*                   "coerce", "index", "resolve", "render" (the passes of *)
(*                   TycoContext::render that are still to run),           *)
(*                   "globals", "instances" (inside render_templates),     *)
(*                   "done" (Ok(context) returned), "error" (Err returned) *)
(*   context         the TycoContext                                       *)
(*   state, current_struct, instance_lines, idx                            *)
(*                   the locals of parse_lines; idx counts the physical    *)
(*                   lines consumed                                        *)
(*   eof             the input has no line after the ones consumed         *)
(*   err             the kind of the TycoError returned                    *)
(*   snapshot, instance_snapshot, cursor                                   *)
(*                   the locals of render_templates: the context clone,    *)
(*                   the instance clone, and the loop positions (g: next   *)
(*                   global, s: struct, i: instance, f: next field; f = 0  *)
(*                   before the instance clone is taken)                   *)
(*   arg, res        input and result of a function applied on its own     *)
(*   files           the file system: the lines of every file, by path     *)
(*   parser          the TycoParser that parse_file is called on           *)
(*   returned        what the calls made so far have returned              *)
(***************************************************************************)
VARIABLES pc, context, state, current_struct, instance_lines, idx, eof, err,
          snapshot, instance_snapshot, cursor, arg, res, files, parser, returned

vars == <<pc, context, state, current_struct, instance_lines, idx, eof, err,
          snapshot, instance_snapshot, cursor, arg, res, files, parser, returned>>

loop_vars == <<state, current_struct, instance_lines, idx, eof>>

render_vars == <<snapshot, instance_snapshot, cursor>>

fn_vars == <<arg, res>>

file_vars == <<files, parser, returned>>

\* no file is read: the call is on a text
NoFiles ==
    /\ files = <<>>
    /\ parser = [included |-> {}]
    /\ returned = <<>>

StartCursor == [g |-> 1, s |-> 1, i |-> 1, f |-> 0]

\* the locals of parse_lines as the record the loop operators take
PS ==
    [context |-> context, state |-> state, current_struct |-> current_struct,
     instance_lines |-> instance_lines]

\* Err(kind) is returned: the document is dropped with the call's locals
Abort(kind) ==
    /\ pc' = "error"
    /\ err' = kind
    /\ context' = TycoContext
    /\ state' = "TopLevel"
    /\ current_struct' = None
    /\ instance_lines' = <<>>
    /\ snapshot' = TycoContext
    /\ instance_snapshot' = None
    /\ cursor' = StartCursor

(***************************************************************************)
(* The physical lines the inputs of Spec are made of.                      *)
(***************************************************************************)
\* a struct header: `A:`
Line_HeaderA == <<"A", ":">>

\* a second struct header: `B:`
Line_HeaderB == <<"B", ":">>

\* a primary-key field declaration: ` *str id:`
Line_FieldId == <<" ", "*", "s", "t", "r", " ", "i", "d", ":">>

\* a field declaration with an inline default: ` int c: 0`
Line_FieldCount == <<" ", "i", "n", "t", " ", "c", ":", " ", "0">>

\* a global whose literal is a struct call: `A g: A(a)`
Line_GlobalCall == <<"A", " ", "g", ":", " ", "A", "(", "a", ")">>

\* a default-update: ` c: 5`
Line_DefaultUpdate == <<" ", "c", ":", " ", "5">>

\* an instance bullet with one positional argument: `- a`
Line_BulletKey == <<"-", " ", "a">>

\* an instance bullet with two positional arguments: `- a, 7`
Line_BulletKeyCount == <<"-", " ", "a", ",", " ", "7">>

\* an instance bullet without arguments: `-`
Line_BulletEmpty == <<"-">>

\* an indented line of no other form: ` b`
Line_Bare == <<" ", "b">>

\* a line that is blank after comment stripping: `# x`
Line_Comment == <<"#", " ", "x">>

InputLines ==
    {Line_HeaderA,
     Line_HeaderB,
     Line_FieldId,
     Line_FieldCount,
     Line_GlobalCall,
     Line_DefaultUpdate,
     Line_BulletKey,
     Line_BulletKeyCount,
     Line_BulletEmpty,
     Line_Bare,
     Line_Comment}

\* the lines after the current one that an iteration may consume: none unless the
\* line opens a backslash continuation or a multi-line literal
RECURSIVE SeqsUpTo(_, _)
SeqsUpTo(S, n) ==
    IF n <= 0 THEN {<<>>}
    ELSE LET shorter == SeqsUpTo(S, n - 1)
         IN shorter \cup {Append(q, x) : q \in shorter, x \in S}

wants_more(text) ==
    \/ EndsWith(Trim(strip_inline_comment(text)), <<"\\">>)
    \/ has_unclosed_delimiter(text, TripleDouble)
    \/ has_unclosed_delimiter(text, TripleSingle)

FollowingLines(text) ==
    IF wants_more(text) THEN SeqsUpTo(InputLines, MaxLines - idx - 1) ELSE {<<>>}

(***************************************************************************)
(* Spec: one parse call on an input of at most MaxLines lines.  Init is    *)
(* the state at the top of parse_lines; each action is one iteration of    *)
(* its loop (one per branch), the end of the input, or one pass of         *)
(* TycoContext::render.                                                    *)
(***************************************************************************)
Init ==
    /\ pc = "lines"
    /\ context = TycoContext
    /\ state = "TopLevel"
    /\ current_struct = None
    /\ instance_lines = <<>>
    /\ idx = 0
    /\ eof = FALSE
    /\ err = ""
    /\ snapshot = TycoContext
    /\ instance_snapshot = None
    /\ cursor = StartCursor
    /\ arg = <<>>
    /\ res = <<>>
    /\ NoFiles

\* the effect of one loop iteration on the locals of parse_lines: `step` is the
\* outcome of the branch taken on the line, `rest` the following lines it consumed
Iterate(step, rest) ==
    /\ step.used = Len(rest)
    /\ IF step.ok
       THEN /\ pc' = "lines"
            /\ context' = step.ps.context
            /\ state' = step.ps.state
            /\ current_struct' = step.ps.current_struct
            /\ instance_lines' = step.ps.instance_lines
            /\ idx' = idx + 1 + step.used
            /\ eof' = step.starved
            /\ UNCHANGED <<err, snapshot, instance_snapshot, cursor>>
       ELSE /\ Abort(step.err)
            /\ idx' = idx
            /\ eof' = FALSE

\* the loop has a next line to read
MoreLines ==
    /\ pc = "lines"
    /\ ~eof
    /\ idx < MaxLines

\* a line that is blank once its comment is stripped is skipped
SkipBlank ==
    /\ MoreLines
    /\ \E text \in InputLines : \E rest \in FollowingLines(text) :
          \E step \in {dispatch_line(PS, text, rest)} :
             step.kind = "blank" /\ Iterate(step, rest)
    /\ UNCHANGED <<fn_vars, file_vars>>

\* a struct header opens a struct
StructHeader ==
    /\ MoreLines
    /\ \E text \in InputLines : \E rest \in FollowingLines(text) :
          \E step \in {dispatch_line(PS, text, rest)} :
             step.kind = "header" /\ Iterate(step, rest)
    /\ UNCHANGED <<fn_vars, file_vars>>

\* an indented field declaration extends the schema of the open struct
FieldDeclaration ==
    /\ MoreLines
    /\ \E text \in InputLines : \E rest \in FollowingLines(text) :
          \E step \in {dispatch_line(PS, text, rest)} :
             step.kind = "field" /\ Iterate(step, rest)
    /\ UNCHANGED <<fn_vars, file_vars>>

\* a field declaration at column 0 sets a global
GlobalDeclaration ==
    /\ MoreLines
    /\ \E text \in InputLines : \E rest \in FollowingLines(text) :
          \E step \in {dispatch_line(PS, text, rest)} :
             step.kind = "global" /\ Iterate(step, rest)
    /\ UNCHANGED <<fn_vars, file_vars>>

\* a default-update line replaces the default of a field of the open struct
DefaultUpdate ==
    /\ MoreLines
    /\ \E text \in InputLines : \E rest \in FollowingLines(text) :
          \E step \in {dispatch_line(PS, text, rest)} :
             step.kind = "default" /\ Iterate(step, rest)
    /\ UNCHANGED <<fn_vars, file_vars>>

\* an instance bullet is buffered for the open struct
InstanceBullet ==
    /\ MoreLines
    /\ \E text \in InputLines : \E rest \in FollowingLines(text) :
          \E step \in {dispatch_line(PS, text, rest)} :
             step.kind = "bullet" /\ Iterate(step, rest)
    /\ UNCHANGED <<fn_vars, file_vars>>

\* an indented line of no other form extends the last buffered bullet
BareContinuation ==
    /\ MoreLines
    /\ \E text \in InputLines : \E rest \in FollowingLines(text) :
          \E step \in {dispatch_line(PS, text, rest)} :
             step.kind = "continuation" /\ Iterate(step, rest)
    /\ UNCHANGED <<fn_vars, file_vars>>

\* a line of no known form is skipped
SkipUnmatched ==
    /\ MoreLines
    /\ \E text \in InputLines : \E rest \in FollowingLines(text) :
          \E step \in {dispatch_line(PS, text, rest)} :
             step.kind = "unmatched" /\ Iterate(step, rest)
    /\ UNCHANGED <<fn_vars, file_vars>>

\* the input ends: the buffered instance lines are flushed to the current struct
EndOfInput ==
    /\ pc = "lines"
    /\ \E flushed \in {final_flush(PS)} :
          IF flushed.ok
          THEN /\ pc' = "coerce"
               /\ context' = flushed.v
               /\ instance_lines' = <<>>
               /\ eof' = TRUE
               /\ UNCHANGED <<state, current_struct, idx, err, snapshot, instance_snapshot, cursor>>
          ELSE /\ Abort(flushed.err)
               /\ eof' = TRUE
               /\ UNCHANGED idx
    /\ UNCHANGED <<fn_vars, file_vars>>

\* the outcome of a pass of TycoContext::render that may fail: `result` is its
\* Result, on Ok the call moves on to `next`
Pass(next, result) ==
    /\ IF result.ok
       THEN /\ pc' = next
            /\ context' = result.v
            /\ UNCHANGED <<state, current_struct, instance_lines, err, snapshot,
                           instance_snapshot, cursor>>
       ELSE Abort(result.err)
    /\ UNCHANGED <<idx, eof, arg, res, file_vars>>

\* resolve_inline_instances
CoercionPass ==
    /\ pc = "coerce"
    /\ Pass("index", resolve_inline_instances(context))

\* a variant in which the indexes are built once the templates are rendered
IndexingAfterRendering ==
    /\ pc = "index"
    /\ Pass("resolve", Ok(build_indexes(render_context(context))))

\* build_primary_index on every struct
IndexingPass ==
    /\ pc = "index"
    /\ Pass("resolve", Ok(build_indexes(context)))

\* resolve_references
ReferencePass ==
    /\ pc = "resolve"
    /\ Pass("render", resolve_references(context))

\* render_templates as one step
TemplatePass ==
    /\ pc = "render"
    /\ Pass("done", Ok(render_context(context)))

Next ==
    \/ SkipBlank
    \/ StructHeader
    \/ FieldDeclaration
    \/ GlobalDeclaration
    \/ DefaultUpdate
    \/ InstanceBullet
    \/ BareContinuation
    \/ SkipUnmatched
    \/ EndOfInput
    \/ CoercionPass
    \/ IndexingPass
    \/ ReferencePass
    \/ TemplatePass

Spec == Init /\ [][Next]_vars

(***************************************************************************)
(* The physical lines the documents of SpecPipeline are made of, besides   *)
(* those of InputLines.                                                    *)
(***************************************************************************)
\* a plain global: `str g: w`
Line_GlobalW == <<"s", "t", "r", " ", "g", ":", " ", "w">>

\* a global whose text names the global before it: `str h: {g}!`
Line_GlobalH == <<"s", "t", "r", " ", "h", ":", " ", "{", "g", "}", "!">>

\* a global named like a field of B: `str x: outer`
Line_GlobalX == <<"s", "t", "r", " ", "x", ":", " ", "o", "u", "t", "e", "r">>

\* a text field: ` str a:`
Line_FieldA == <<" ", "s", "t", "r", " ", "a", ":">>

\* a second text field: ` str b:`
Line_FieldB == <<" ", "s", "t", "r", " ", "b", ":">>

\* a text field that holds a template: ` str t:`
Line_FieldT == <<" ", "s", "t", "r", " ", "t", ":">>

\* the text field of B: ` str x:`
Line_FieldX == <<" ", "s", "t", "r", " ", "x", ":">>

\* a field named global that holds an inline B: ` B global:`
Line_FieldGlobal == <<" ", "B", " ", "g", "l", "o", "b", "a", "l", ":">>

\* a nullable reference to another A: ` ?A next:`
Line_FieldNext == <<" ", "?", "A", " ", "n", "e", "x", "t", ":">>

\* a field whose default is a reference to the A of key a: ` A ref: A(a)`
Line_FieldRef == <<" ", "A", " ", "r", "e", "f", ":", " ", "A", "(", "a", ")">>

\* a global reference to the A of key k: `A r: A(k)`
Line_RefK == <<"A", " ", "r", ":", " ", "A", "(", "k", ")">>

\* a global reference to a key no A has: `A r: A(zz)`
Line_RefMissing == <<"A", " ", "r", ":", " ", "A", "(", "z", "z", ")">>

\* a global reference to a struct that is never declared: `Z r: Z(a)`
Line_RefUnknown == <<"Z", " ", "r", ":", " ", "Z", "(", "a", ")">>

\* a global array of references: `A[] rs: [A(b), A(a)]`
Line_RefArray ==
    <<"A", "[", "]", " ", "r", "s", ":", " ", "[", "A", "(", "b", ")", ",", " ", "A", "(",
      "a", ")", "]">>

\* a global inline instance of B: `B n: B()`
Line_InlineB == <<"B", " ", "n", ":", " ", "B", "(", ")">>

\* an instance of key b with a count: `- b, 7`
Line_BulletB7 == <<"-", " ", "b", ",", " ", "7">>

\* an instance that refers to the A of key b: `- a, A(b)`
Line_BulletNextB == <<"-", " ", "a", ",", " ", "A", "(", "b", ")">>

\* an instance that refers to nothing: `- b, null`
Line_BulletBNull == <<"-", " ", "b", ",", " ", "n", "u", "l", "l">>

\* an instance whose field global holds an x: `- k, B(inner), {global.x}`
Line_BulletShadow ==
    <<"-", " ", "k", ",", " ", "B", "(", "i", "n", "n", "e", "r", ")", ",", " ", "{", "g",
      "l", "o", "b", "a", "l", ".", "x", "}">>

\* the start of an instance bullet of key k: `- k, `
Line_BulletStart == <<"-", " ", "k", ",", " ">>

\* the separator of two arguments: `, `
Line_Comma == <<",", " ">>

\* the texts a field of an instance may hold
\* no placeholder: `x`
Tpl_Plain == <<"x">>

\* the key of the instance: `{id}`
Tpl_Id == <<"{", "i", "d", "}">>

\* the field a: `{a}+`
Tpl_A == <<"{", "a", "}", "+">>

\* the field b: `{b}-`
Tpl_B == <<"{", "b", "}", "-">>

\* a name that only a global has: `{g}`
Tpl_G == <<"{", "g", "}">>

\* the global g through the prefix: `{global.g}`
Tpl_GlobalG == <<"{", "g", "l", "o", "b", "a", "l", ".", "g", "}">>

\* a name nothing has: `{nope}`
Tpl_Nope == <<"{", "n", "o", "p", "e", "}">>


FieldTemplates == {Tpl_Plain, Tpl_Id, Tpl_A, Tpl_B, Tpl_G, Tpl_GlobalG, Tpl_Nope}

\* two globals, one A of key k whose fields a and b hold the texts t1 and t2, and
\* a global reference to that A
TemplateDocument(t1, t2) ==
    <<Line_GlobalW, Line_GlobalH, Line_HeaderA, Line_FieldId, Line_FieldA, Line_FieldB,
      Line_BulletStart \o t1 \o Line_Comma \o t2, Line_RefK>>

\* an instance whose field `global` holds an inline B with a field x, and whose
\* field t reads {global.x}, beside a global x
Doc_Shadow ==
    <<Line_GlobalX, Line_HeaderB, Line_FieldX, Line_HeaderA, Line_FieldId, Line_FieldGlobal,
      Line_FieldT, Line_BulletShadow>>

\* two instances of different keys and an array of references to both
Doc_Array ==
    <<Line_HeaderA, Line_FieldId, Line_FieldCount, Line_BulletKey, Line_BulletB7, Line_RefArray>>

\* two instances of the same key and a reference to that key
Doc_Duplicate ==
    <<Line_HeaderA, Line_FieldId, Line_FieldCount, Line_BulletKey, Line_BulletKeyCount,
      Line_GlobalCall>>

\* an instance that refers to the instance after it
Doc_Chain ==
    <<Line_HeaderA, Line_FieldId, Line_FieldNext, Line_BulletNextB, Line_BulletBNull>>

\* a reference inside an inline instance, put there by a default
Doc_Nested ==
    <<Line_HeaderA, Line_FieldId, Line_BulletKey, Line_HeaderB, Line_FieldRef, Line_InlineB>>

\* a reference read before its struct is declared
Doc_Forward == <<Line_GlobalCall, Line_HeaderA, Line_FieldId, Line_BulletKey>>

\* a reference read before its struct is declared without a primary key
Doc_ForwardNoKey == <<Line_GlobalCall, Line_HeaderA, Line_FieldCount, Line_BulletEmpty>>

\* a reference to a key that no instance has
Doc_Missing == <<Line_HeaderA, Line_FieldId, Line_BulletKey, Line_RefMissing>>

\* a reference to a struct that is never declared
Doc_Unknown == <<Line_HeaderA, Line_FieldId, Line_BulletKey, Line_RefUnknown>>

Documents ==
    {TemplateDocument(t1, t2) : t1 \in FieldTemplates, t2 \in FieldTemplates}
        \cup {Doc_Shadow, Doc_Array, Doc_Duplicate, Doc_Chain, Doc_Nested, Doc_Forward,
              Doc_ForwardNoKey, Doc_Missing, Doc_Unknown}

(***************************************************************************)
(* TycoContext::render and the parse call as functions of the document.    *)
(***************************************************************************)
\* self.resolve_inline_instances()?
after_coercion(parsed) == IF ~parsed.ok THEN parsed ELSE resolve_inline_instances(parsed.v)

\* the loop over build_primary_index
after_indexing(coerced) == IF ~coerced.ok THEN coerced ELSE Ok(build_indexes(coerced.v))

\* self.resolve_references()?
after_resolution(indexed) == IF ~indexed.ok THEN indexed ELSE resolve_references(indexed.v)

\* self.render_templates()
after_rendering(resolved) == IF ~resolved.ok THEN resolved ELSE Ok(render_context(resolved.v))

\* the document as the template-rendering pass finds it
load_resolved(lines) ==
    after_resolution(after_indexing(after_coercion(parse_loop(InitialParse, lines))))

\* the whole parse call: Result<TycoContext>
parse_document(lines) == after_rendering(load_resolved(lines))

(***************************************************************************)
(* SpecPipeline: the passes of TycoContext::render on a document of        *)
(* Documents, the template-rendering pass one loop iteration at a time.    *)
(* Init is the state in which parse_lines leaves the document; arg holds   *)
(* the document.  cursor.g is the global the loop over the globals is at,  *)
(* cursor.s and cursor.i the struct and the instance the loop over the     *)
(* instances is at, cursor.f the field of that instance (0 before the      *)
(* instance is cloned).                                                    *)
(***************************************************************************)
InitPipeline ==
    /\ pc = "coerce"
    /\ arg \in Documents
    /\ \E parsed \in {parse_loop(InitialParse, arg)} :
          /\ parsed.ok
          /\ context = parsed.v
    /\ state = "TopLevel"
    /\ current_struct = None
    /\ instance_lines = <<>>
    /\ idx = Len(arg)
    /\ eof = TRUE
    /\ err = ""
    /\ snapshot = TycoContext
    /\ instance_snapshot = None
    /\ cursor = StartCursor
    /\ res = <<>>
    /\ NoFiles

\* the instance the loop over the instances is at
CurrentInstance == context.structs[cursor.s].v.instances[cursor.i]

\* let mut snapshot = self.clone()
BeginRender ==
    /\ pc = "render"
    /\ pc' = "globals"
    /\ snapshot' = context
    /\ cursor' = StartCursor
    /\ UNCHANGED <<context, instance_snapshot, err, loop_vars, fn_vars, file_vars>>

\* one iteration of the loop over the globals
RenderGlobal ==
    /\ pc = "globals"
    /\ cursor.g <= Len(context.globals)
    /\ \E key \in {context.globals[cursor.g].k} :
          \E stored \in {store_global(context, snapshot, key,
                                      render_global(context, snapshot, key))} :
             /\ context' = stored.ctx
             /\ snapshot' = stored.snapshot
    /\ cursor' = [cursor EXCEPT !.g = @ + 1]
    /\ UNCHANGED <<pc, instance_snapshot, err, loop_vars, fn_vars, file_vars>>

\* the loop over the globals ends
EndGlobals ==
    /\ pc = "globals"
    /\ cursor.g > Len(context.globals)
    /\ pc' = "instances"
    /\ UNCHANGED <<context, render_vars, err, loop_vars, fn_vars, file_vars>>

\* let mut instance_snapshot = instance.clone()
BeginInstance ==
    /\ pc = "instances"
    /\ cursor.s <= Len(context.structs)
    /\ cursor.i <= Len(context.structs[cursor.s].v.instances)
    /\ cursor.f = 0
    /\ instance_snapshot' = Some(CurrentInstance)
    /\ cursor' = [cursor EXCEPT !.f = 1]
    /\ UNCHANGED <<pc, context, snapshot, err, loop_vars, fn_vars, file_vars>>

\* one iteration of the loop over the keys of the instance
RenderField ==
    /\ pc = "instances"
    /\ cursor.f >= 1
    /\ cursor.f <= Len(CurrentInstance.field_order)
    /\ \E rendered \in {render_stored_field(CurrentInstance, instance_snapshot[1],
                                            CurrentInstance.field_order[cursor.f], snapshot)} :
          /\ context' = [context EXCEPT !.structs[cursor.s].v.instances[cursor.i] = rendered]
          /\ instance_snapshot' = Some(refresh_snapshot(instance_snapshot[1], rendered))
    /\ cursor' = [cursor EXCEPT !.f = @ + 1]
    /\ UNCHANGED <<pc, snapshot, err, loop_vars, fn_vars, file_vars>>

\* the rendered instance is cloned into the snapshot
EndInstance ==
    /\ pc = "instances"
    /\ cursor.f >= 1
    /\ cursor.f > Len(CurrentInstance.field_order)
    /\ snapshot' = store_in_snapshot(snapshot, context.structs[cursor.s].k, cursor.i,
                                     CurrentInstance)
    /\ instance_snapshot' = None
    /\ cursor' = [cursor EXCEPT !.i = @ + 1, !.f = 0]
    /\ UNCHANGED <<pc, context, err, loop_vars, fn_vars, file_vars>>

\* the loop over the instances of one struct ends
NextStruct ==
    /\ pc = "instances"
    /\ cursor.s <= Len(context.structs)
    /\ cursor.i > Len(context.structs[cursor.s].v.instances)
    /\ cursor.f = 0
    /\ cursor' = [cursor EXCEPT !.s = @ + 1, !.i = 1]
    /\ UNCHANGED <<pc, context, snapshot, instance_snapshot, err, loop_vars, fn_vars, file_vars>>

\* the loop over the structs ends
FinishRender ==
    /\ pc = "instances"
    /\ cursor.s > Len(context.structs)
    /\ pc' = "done"
    /\ UNCHANGED <<context, render_vars, err, loop_vars, fn_vars, file_vars>>

NextPipeline ==
    \/ CoercionPass
    \/ IndexingPass
    \/ ReferencePass
    \/ BeginRender
    \/ RenderGlobal
    \/ EndGlobals
    \/ BeginInstance
    \/ RenderField
    \/ EndInstance
    \/ NextStruct
    \/ FinishRender

SpecPipeline == InitPipeline /\ [][NextPipeline]_vars

(***************************************************************************)
(* SpecString: TycoString::render on its own, applied to the text of an    *)
(* unquoted token of at most MaxStrLen characters, outside any instance    *)
(* and with no global to resolve a placeholder from.  arg is the token,    *)
(* res the rendered TycoString.                                            *)
(***************************************************************************)
TemplateAlphabet == {"{", "}", "a", "\\"}

InitString ==
    /\ pc = "string"
    /\ arg \in SeqsUpTo(TemplateAlphabet, MaxStrLen)
    /\ res = <<>>
    /\ context = TycoContext
    /\ state = "TopLevel"
    /\ current_struct = None
    /\ instance_lines = <<>>
    /\ idx = 0
    /\ eof = FALSE
    /\ err = ""
    /\ snapshot = TycoContext
    /\ instance_snapshot = None
    /\ cursor = StartCursor
    /\ NoFiles

\* the token is read as a string value and rendered
RenderString ==
    /\ pc = "string"
    /\ \E parsed \in {parse_string_value(arg)} :
          /\ parsed.ok
          /\ res' = render(parsed.v, context, None)
    /\ pc' = "rendered"
    /\ UNCHANGED <<context, err, arg, loop_vars, render_vars, file_vars>>

NextString == RenderString

SpecString == InitString /\ [][NextString]_vars

(***************************************************************************)
(* The physical lines the documents of SpecDocument are made of, besides   *)
(* those above.                                                            *)
(***************************************************************************)
\* a global whose literal is one double quote: `str g: "`
Line_GlobalQuote == <<"s", "t", "r", " ", "g", ":", " ", "\"">>

\* a field of A whose default is an inline A: ` A next: A()`
Line_FieldSelf == <<" ", "A", " ", "n", "e", "x", "t", ":", " ", "A", "(", ")">>

\* an instance that refers to itself: `- a, A(a)`
Line_BulletSelf == <<"-", " ", "a", ",", " ", "A", "(", "a", ")">>

\* an instance of key b that refers to the A of key a: `- b, A(a)`
Line_BulletBackToA == <<"-", " ", "b", ",", " ", "A", "(", "a", ")">>

\* a named argument, then a positional one: `- id: a, 7`
Line_BulletNamedThenPositional == <<"-", " ", "i", "d", ":", " ", "a", ",", " ", "7">>

\* a positional argument, then a named one: `- a, c: 7`
Line_BulletPositionalThenNamed == <<"-", " ", "a", ",", " ", "c", ":", " ", "7">>

\* a named argument that names no field: `- a, zz: 7`
Line_BulletUnknownNamed == <<"-", " ", "a", ",", " ", "z", "z", ":", " ", "7">>

\* more positional arguments than A has fields: `- a, 7, 8`
Line_BulletTooMany == <<"-", " ", "a", ",", " ", "7", ",", " ", "8">>

\* the second text field of B: ` str y:`
Line_FieldY == <<" ", "s", "t", "r", " ", "y", ":">>

\* an inline B with a positional argument after a named one: `B n: B(y: 1, 2)`
Line_InlineMixed ==
    <<"B", " ", "n", ":", " ", "B", "(", "y", ":", " ", "1", ",", " ", "2", ")">>

\* an inline B with a named argument after a positional one: `B n: B(2, y: 1)`
Line_InlineNamed ==
    <<"B", " ", "n", ":", " ", "B", "(", "2", ",", " ", "y", ":", " ", "1", ")">>

\* an inline B with one positional argument too many: `B n: B(1, 2)`
Line_InlineExtra == <<"B", " ", "n", ":", " ", "B", "(", "1", ",", " ", "2", ")">>

\* an inline B with a named argument that names no field: `B n: B(zz: 1)`
Line_InlineUnknown == <<"B", " ", "n", ":", " ", "B", "(", "z", "z", ":", " ", "1", ")">>

\* a global whose triple-quoted literal stays open: `str g: """a`
Line_OpenTriple == <<"s", "t", "r", " ", "g", ":", " ", "\"", "\"", "\"", "a">>

\* the same with single quotes: `str g: '''a`
Line_OpenTripleSingle == <<"s", "t", "r", " ", "g", ":", " ", "'", "'", "'", "a">>

\* an int global whose triple-quoted literal stays open: `int g: """a`
Line_OpenTripleInt == <<"i", "n", "t", " ", "g", ":", " ", "\"", "\"", "\"", "a">>

\* the line that closes the literal: `b"""`
Line_CloseTriple == <<"b", "\"", "\"", "\"">>

\* a field default whose triple-quoted literal stays open: ` str a: """a`
Line_FieldOpenTriple == <<" ", "s", "t", "r", " ", "a", ":", " ", "\"", "\"", "\"", "a">>

\* an instance bullet whose triple-quoted literal stays open: `- a, """a`
Line_BulletOpenTriple == <<"-", " ", "a", ",", " ", "\"", "\"", "\"", "a">>


\* a struct declared twice, with a field and an instance before the second header
Doc_Redeclared == <<Line_HeaderA, Line_FieldId, Line_BulletKey, Line_HeaderA, Line_FieldCount>>

\* a string literal that is one quote character
Doc_LoneQuote == <<Line_GlobalQuote>>

\* a field whose default is an inline instance of the field's own struct
Doc_SelfDefault == <<Line_HeaderA, Line_FieldSelf, Line_BulletEmpty>>

\* an instance that refers to itself
Doc_SelfReference == <<Line_HeaderA, Line_FieldId, Line_FieldNext, Line_BulletSelf>>

\* two instances that refer to each other
Doc_Cycle ==
    <<Line_HeaderA, Line_FieldId, Line_FieldNext, Line_BulletNextB, Line_BulletBackToA>>

\* an instance line with a positional argument after a named one
Doc_NamedThenPositional ==
    <<Line_HeaderA, Line_FieldId, Line_FieldCount, Line_BulletNamedThenPositional>>

\* the same line buffered before a second struct is opened
Doc_NamedThenPositionalFlushed ==
    <<Line_HeaderA, Line_FieldId, Line_FieldCount, Line_BulletNamedThenPositional, Line_HeaderB>>

\* an instance line with a named argument after a positional one
Doc_PositionalThenNamed ==
    <<Line_HeaderA, Line_FieldId, Line_FieldCount, Line_BulletPositionalThenNamed>>

\* an instance line with a named argument that names no field
Doc_UnknownNamed == <<Line_HeaderA, Line_FieldId, Line_FieldCount, Line_BulletUnknownNamed>>

\* an instance line with more positional arguments than the struct has fields
Doc_TooMany == <<Line_HeaderA, Line_FieldId, Line_FieldCount, Line_BulletTooMany>>

\* an inline instance with a positional argument after a named one
Doc_InlineMixed == <<Line_HeaderB, Line_FieldX, Line_FieldY, Line_InlineMixed>>

\* an inline instance with a named argument after a positional one
Doc_InlineNamed == <<Line_HeaderB, Line_FieldX, Line_FieldY, Line_InlineNamed>>

\* an inline instance with more positional arguments than the struct has fields
Doc_InlineExtra == <<Line_HeaderB, Line_FieldX, Line_InlineExtra>>

\* an inline instance with a named argument that names no field
Doc_InlineUnknown == <<Line_HeaderB, Line_FieldX, Line_InlineUnknown>>

\* a triple-quoted literal that is still open when the input ends
Doc_OpenTriple == <<Line_OpenTriple>>

\* the same, with a line after the one that opens the literal
Doc_OpenTripleTail == <<Line_OpenTriple, Line_GlobalW>>

\* the same with single quotes
Doc_OpenTripleSingle == <<Line_OpenTripleSingle>>

\* the same for a global of type int
Doc_OpenTripleInt == <<Line_OpenTripleInt>>

\* the same in the default of a field
Doc_FieldOpenTriple == <<Line_HeaderA, Line_FieldOpenTriple>>

\* the same in an instance bullet
Doc_BulletOpenTriple == <<Line_HeaderA, Line_FieldId, Line_FieldA, Line_BulletOpenTriple>>

\* a triple-quoted literal closed on the next line
Doc_ClosedTriple == <<Line_OpenTriple, Line_CloseTriple>>

\* a second primary-key field declaration: ` *str k:`
Line_FieldKey == <<" ", "*", "s", "t", "r", " ", "k", ":">>

\* an instance with two positional arguments: `- a, b`
Line_BulletTwo == <<"-", " ", "a", ",", " ", "b">>

\* a struct that declares two primary-key fields
Doc_TwoKeys == <<Line_HeaderA, Line_FieldId, Line_FieldKey, Line_BulletTwo>>

\* a struct that declares the field a twice
Doc_FieldTwice == <<Line_HeaderA, Line_FieldA, Line_FieldA, Line_BulletTwo>>

\* a field declaration before any struct header
Doc_FieldBeforeHeader == <<Line_FieldA, Line_HeaderA>>

\* a field declaration after a global and before any struct header
Doc_GlobalThenField == <<Line_GlobalW, Line_FieldId>>

\* an instance bullet before any struct header
Doc_BulletBeforeHeader == <<Line_BulletKey, Line_HeaderA>>

\* an instance bullet after a global and before any struct header
Doc_GlobalThenBullet == <<Line_GlobalW, Line_BulletKeyCount>>

\* a default update of a field no struct of the documents declares: ` zz: 1`
Line_UpdateUnknown == <<" ", "z", "z", ":", " ", "1">>

\* the same without a value: ` zz:`
Line_UpdateUnknownEmpty == <<" ", "z", "z", ":">>

\* a default update of an undeclared field
Doc_UpdateUnknown == <<Line_HeaderA, Line_FieldId, Line_FieldCount, Line_UpdateUnknown>>

\* a default update of an undeclared field, without a value
Doc_UpdateUnknownEmpty ==
    <<Line_HeaderA, Line_FieldId, Line_FieldCount, Line_UpdateUnknownEmpty, Line_BulletKey>>

\* a default update of a declared field
Doc_UpdateCount ==
    <<Line_HeaderA, Line_FieldId, Line_FieldCount, Line_DefaultUpdate, Line_BulletKey>>

\* a line of no form: `hello`
Line_NoForm == <<"h", "e", "l", "l", "o">>

\* a default-update-shaped line read while no struct is open
Doc_UpdateBeforeHeader == <<Line_DefaultUpdate, Line_GlobalW>>

\* a line of no form between a global and a struct
Doc_NoForm == <<Line_GlobalW, Line_NoForm, Line_HeaderA, Line_FieldId>>

\* an instance bullet that a backslash continues on the next line: `- a, \`
Line_BulletContinued == <<"-", " ", "a", ",", " ", "\\">>

\* the line that continues it: `  7`
Line_Seven == <<" ", " ", "7">>

\* an instance bullet continued on the next line
Doc_Continued ==
    <<Line_HeaderA, Line_FieldId, Line_FieldCount, Line_BulletContinued, Line_Seven>>

\* an instance bullet continued on the next line, and a struct after it
Doc_ContinuedThenHeader ==
    <<Line_HeaderA, Line_FieldId, Line_FieldCount, Line_BulletContinued, Line_Seven,
      Line_HeaderB>>

\* an instance bullet that ends in a backslash on the last line
Doc_ContinuedNowhere == <<Line_HeaderA, Line_FieldId, Line_BulletContinued>>

Sources ==
    Documents
        \cup {Doc_Redeclared, Doc_LoneQuote, Doc_SelfDefault, Doc_SelfReference, Doc_Cycle,
              Doc_NamedThenPositional, Doc_NamedThenPositionalFlushed, Doc_PositionalThenNamed,
              Doc_UnknownNamed, Doc_TooMany, Doc_InlineMixed, Doc_InlineNamed, Doc_InlineExtra,
              Doc_InlineUnknown, Doc_OpenTriple, Doc_OpenTripleTail, Doc_OpenTripleSingle,
              Doc_OpenTripleInt, Doc_FieldOpenTriple, Doc_BulletOpenTriple, Doc_ClosedTriple,
              Doc_TwoKeys, Doc_FieldTwice, Doc_FieldBeforeHeader, Doc_GlobalThenField,
              Doc_BulletBeforeHeader, Doc_GlobalThenBullet, Doc_UpdateUnknown,
              Doc_UpdateUnknownEmpty, Doc_UpdateCount, Doc_UpdateBeforeHeader, Doc_NoForm,
              Doc_Continued, Doc_ContinuedThenHeader, Doc_ContinuedNowhere}

(***************************************************************************)
(* SpecDocument: one parse call on a document of Sources.  arg holds the   *)
(* document; the loop of parse_lines reads it one iteration at a time,     *)
(* idx counting the lines consumed, and the passes of TycoContext::render  *)
(* follow.  An err of Abnormal stands for a call that does not return: a   *)
(* panic, or the overflow of the stack.                                    *)
(***************************************************************************)
Abnormal == {"panic", "overflow"}

InitDocument ==
    /\ pc = "lines"
    /\ arg \in Sources
    /\ context = TycoContext
    /\ state = "TopLevel"
    /\ current_struct = None
    /\ instance_lines = <<>>
    /\ idx = 0
    /\ eof = FALSE
    /\ err = ""
    /\ snapshot = TycoContext
    /\ instance_snapshot = None
    /\ cursor = StartCursor
    /\ res = <<>>
    /\ NoFiles

\* the lines of the document after the one the loop is at
LinesAfter == SubSeq(arg, idx + 2, Len(arg))

\* one iteration of the loop of parse_lines on the line at idx
ReadLine ==
    /\ pc = "lines"
    /\ idx < Len(arg)
    /\ \E step \in {dispatch_line(PS, arg[idx + 1], LinesAfter)} :
          IF step.ok
          THEN /\ pc' = "lines"
               /\ context' = step.ps.context
               /\ state' = step.ps.state
               /\ current_struct' = step.ps.current_struct
               /\ instance_lines' = step.ps.instance_lines
               /\ idx' = idx + 1 + step.used
               /\ eof' = (idx + 1 + step.used >= Len(arg))
               /\ UNCHANGED <<err, snapshot, instance_snapshot, cursor>>
          ELSE /\ Abort(step.err)
               /\ UNCHANGED <<idx, eof>>
    /\ UNCHANGED <<fn_vars, file_vars>>

\* the loop ends: the buffered instance lines are flushed to the current struct
EndOfDocument ==
    /\ pc = "lines"
    /\ idx >= Len(arg)
    /\ \E flushed \in {final_flush(PS)} :
          IF flushed.ok
          THEN /\ pc' = "coerce"
               /\ context' = flushed.v
               /\ instance_lines' = <<>>
               /\ UNCHANGED <<state, current_struct, err, snapshot, instance_snapshot, cursor>>
          ELSE Abort(flushed.err)
    /\ UNCHANGED <<idx, eof, arg, res, file_vars>>

NextDocument ==
    \/ ReadLine
    \/ EndOfDocument
    \/ CoercionPass
    \/ IndexingPass
    \/ ReferencePass
    \/ TemplatePass

SpecDocument == InitDocument /\ [][NextDocument]_vars

(***************************************************************************)
(* What the properties below speak of.                                     *)
(***************************************************************************)
\* the References of a value tree, through arrays and nested instances (not
\* through the payload of a Reference)
RECURSIVE References(_)
References(value) ==
    CASE value.tag = "Reference" -> {value.ref}
      [] value.tag = "Array" ->
            UNION {References(value.items[i]) : i \in DOMAIN value.items}
      [] value.tag = "Instance" ->
            UNION {References(value.inst.fields[i].v) : i \in DOMAIN value.inst.fields}
      [] OTHER -> {}

\* the References in the value tree of every global and of every struct instance
TreeReferences(ctx) ==
    UNION {References(ctx.globals[g].v) : g \in DOMAIN ctx.globals}
        \cup UNION {UNION {References(InstanceV(ctx.structs[s].v.instances[i])) :
                              i \in DOMAIN ctx.structs[s].v.instances} :
                       s \in DOMAIN ctx.structs}

\* the struct `name` is declared and has a primary-key field
DeclaresKey(ctx, name) ==
    IsSome(get_struct(ctx, name)) /\ IsSome(get_struct(ctx, name)[1].primary_key_field)

\* the primary-key field of the instance, read as text, is `key`
HasKey(struct_def, inst, key) ==
    /\ IsSome(get_attribute(inst, struct_def.primary_key_field[1]))
    /\ to_template_text(get_attribute(inst, struct_def.primary_key_field[1])[1]) = key

\* the instances of the referenced struct whose primary key reads as the reference's
Targets(ctx, ref) ==
    IF ~DeclaresKey(ctx, ref.struct_name) THEN {}
    ELSE {inst \in {get_struct(ctx, ref.struct_name)[1].instances[i] :
                        i \in DOMAIN get_struct(ctx, ref.struct_name)[1].instances} :
             HasKey(get_struct(ctx, ref.struct_name)[1], inst, ref.primary_key)}

\* some Reference names a struct that is not declared
NamesUndeclared(ctx) ==
    \E ref \in TreeReferences(ctx) : IsNone(get_struct(ctx, ref.struct_name))

\* some Reference names a struct with a primary key of which no instance has the key
NamesMissingKey(ctx) ==
    \E ref \in TreeReferences(ctx) :
        DeclaresKey(ctx, ref.struct_name) /\ Targets(ctx, ref) = {}

\* the payloads of the References of a value tree, in the order of the tree
RECURSIVE payloads(_)
RECURSIVE payloads_of(_)
payloads(value) ==
    CASE value.tag = "Reference" -> <<value.ref.resolved>>
      [] value.tag = "Array" -> payloads_of(value.items)
      [] value.tag = "Instance" ->
            payloads_of([i \in DOMAIN value.inst.fields |-> value.inst.fields[i].v])
      [] OTHER -> <<>>

payloads_of(values) ==
    IF values = <<>> THEN <<>> ELSE payloads(Head(values)) \o payloads_of(Tail(values))

\* the payloads of every Reference of the document, globals first
AllPayloads(ctx) ==
    payloads_of([g \in DOMAIN ctx.globals |-> ctx.globals[g].v])
        \o payloads_of([s \in DOMAIN ctx.structs |->
                           ArrayV([i \in DOMAIN ctx.structs[s].v.instances |->
                                      InstanceV(ctx.structs[s].v.instances[i])])])

\* the instance the loop is at, as the template-rendering pass found it
RawInstance == load_resolved(arg).v.structs[cursor.s].v.instances[cursor.i]

\* the instance the loop is at, as the whole parse call leaves it
FinalInstance == parse_document(arg).v.structs[cursor.s].v.instances[cursor.i]

\* the path of a templated String that is one closed placeholder and nothing
\* else; <<>> for any other value
PlaceholderPath(value) ==
    IF /\ value.tag = "String"
       /\ value.s.has_template
       /\ ~value.s.is_literal
       /\ Len(value.s.value) >= 3
       /\ value.s.value[1] = "{"
       /\ FindFrom(value.s.value, "}", 1) = Len(value.s.value)
       /\ FindFrom(value.s.value, "{", 2) = 0
    THEN Split(SubSeq(value.s.value, 2, Len(value.s.value) - 1), ".")
    ELSE <<>>

\* the braces of a text, in order
Braces(text) == SelectSeq(text, LAMBDA c : c \in {"{", "}"})

\* the template-rendering pass has just rendered a field of the current instance
FieldRendered == pc = "instances" /\ cursor.f >= 2

\* the name of the field the pass has just rendered
RenderedKey == CurrentInstance.field_order[cursor.f - 1]

(***************************************************************************)
(* The fine-grained pass agrees with TycoContext::render as one function.  *)
(***************************************************************************)
PipelineAgrees ==
    /\ pc = "done" => parse_document(arg) = Ok(context)
    /\ pc = "error" => ~parse_document(arg).ok /\ parse_document(arg).err = err

(***************************************************************************)
(* C1 (SpecPipeline).  When the reference-resolution pass succeeds, every  *)
(* Reference in the value tree of a global or of a struct instance that    *)
(* names a struct with a primary key holds a payload, and the payload is   *)
(* an instance of that struct as the coercion pass left it, field names    *)
(* and values alike, whose primary key reads as the reference's key.  When *)
(* some such Reference names a key that no instance of its struct has, the *)
(* pass aborts the parse and no document is left: with the Reference       *)
(* error, unless a Reference to an undeclared struct is met first.         *)
(***************************************************************************)
C1_ReferenceTakesKeyedInstance ==
    [][pc = "resolve" =>
          /\ pc' = "render" =>
                \A ref \in TreeReferences(context') :
                    DeclaresKey(context, ref.struct_name) =>
                        /\ IsSome(ref.resolved)
                        /\ ref.resolved[1] \in Targets(context, ref)
          /\ NamesMissingKey(context) =>
                /\ pc' = "error"
                /\ context' = TycoContext
                /\ \/ err' = "Reference"
                   \/ err' = "UnknownStruct" /\ NamesUndeclared(context)]_vars

\* a Reference to the key b has taken the instance of key b, count and all
C1_Witness ==
    /\ pc = "render"
    /\ \E ref \in TreeReferences(context) :
          /\ ref.primary_key = <<"b">>
          /\ IsSome(ref.resolved)
          /\ get_attribute(ref.resolved[1], <<"c">>) = Some(IntV(7))

(***************************************************************************)
(* C2 (Spec).  Whenever a struct header opens another struct than the one  *)
(* that was open, the buffer of pending instance lines is empty after it:  *)
(* the pending lines have been flushed to the previous struct.             *)
(***************************************************************************)
C2_BufferFlushedAtHeader ==
    [][(pc = "lines" /\ pc' = "lines" /\ current_struct' # current_struct) =>
          instance_lines' = <<>>]_vars

(***************************************************************************)
(* C3 (SpecPipeline).  While the fields of a stored instance are rendered, *)
(* the clone the next field is rendered against shows every field before   *)
(* it with its final rendered value and every other field, the next one    *)
(* included, with the value it had before the pass.                        *)
(***************************************************************************)
SiblingsSeen(seen, raw, final, keys, f) ==
    \A j \in DOMAIN keys :
        get_attribute(seen, keys[j]) = get_attribute(IF j < f THEN final ELSE raw, keys[j])

C3_SiblingsRenderedOrRaw ==
    (pc = "instances" /\ cursor.f >= 1) =>
        SiblingsSeen(instance_snapshot[1], RawInstance, FinalInstance,
                     CurrentInstance.field_order, cursor.f)

\* the field a is seen rendered, changed by its rendering, while the field b is
\* still seen as a template
C3_Witness ==
    /\ pc = "instances"
    /\ cursor.f = 3
    /\ get_attribute(instance_snapshot[1], <<"a">>) # get_attribute(RawInstance, <<"a">>)
    /\ get_attribute(instance_snapshot[1], <<"b">>)[1].s.has_template

(***************************************************************************)
(* C4 (SpecPipeline).  A field of a stored instance whose text is the one  *)
(* placeholder {global.<path>} is rendered to the text of <path> looked up *)
(* among the globals, and stays as written when the globals have no such   *)
(* path, whatever fields the instance has.                                 *)
(***************************************************************************)
GlobalPrefixLaw(path, raw, rendered, ctx) ==
    (Len(path) >= 2 /\ path[1] = <<"g", "l", "o", "b", "a", "l">>) =>
        rendered.s.value = IF IsSome(resolve_from_globals(ctx, Tail(path)))
                           THEN to_template_text(resolve_from_globals(ctx, Tail(path))[1])
                           ELSE raw.s.value

C4_GlobalPrefixReadsGlobals ==
    FieldRendered =>
        GlobalPrefixLaw(PlaceholderPath(get_attribute(RawInstance, RenderedKey)[1]),
                        get_attribute(RawInstance, RenderedKey)[1],
                        get_attribute(CurrentInstance, RenderedKey)[1], snapshot)

(***************************************************************************)
(* C5 (SpecPipeline).  A field of a stored instance whose text is one      *)
(* placeholder that does not start with `global` and whose first segment   *)
(* names no field of the instance is rendered to its own text, whether or  *)
(* not a global has that name.                                             *)
(***************************************************************************)
LocalScopeLaw(path, raw, rendered, instance) ==
    (/\ path # <<>>
     /\ path[1] # <<"g", "l", "o", "b", "a", "l">>
     /\ ~map_contains_key(instance.fields, path[1])) =>
        rendered.s.value = raw.s.value

C5_UnmatchedStaysVerbatim ==
    FieldRendered =>
        LocalScopeLaw(PlaceholderPath(get_attribute(RawInstance, RenderedKey)[1]),
                      get_attribute(RawInstance, RenderedKey)[1],
                      get_attribute(CurrentInstance, RenderedKey)[1], RawInstance)

(***************************************************************************)
(* C6 (SpecString).  A string rendered where no placeholder resolves keeps *)
(* its braces: the rendered text has the same "{" and "}" in the same      *)
(* order as the text before, none added and none removed.                  *)
(***************************************************************************)
C6_BracesKept == pc = "rendered" => Braces(res.value) = Braces(arg)

(***************************************************************************)
(* C7 (Spec).  When the coercion pass succeeds, every stored instance has  *)
(* every field of its struct's schema that has a default: with the value   *)
(* the instance had for it before the pass if it had one, with the default *)
(* otherwise.                                                              *)
(***************************************************************************)
DefaultsFilled(before, after, fields) ==
    \A f \in DOMAIN fields :
        IsSome(fields[f].default_value) =>
            get_attribute(after, fields[f].name) =
                IF map_contains_key(before.fields, fields[f].name)
                THEN get_attribute(before, fields[f].name)
                ELSE fields[f].default_value

C7_DefaultsFilled ==
    [][(pc = "coerce" /\ pc' = "index") =>
          \A s \in DOMAIN context.structs :
              \A i \in DOMAIN context.structs[s].v.instances :
                  DefaultsFilled(context.structs[s].v.instances[i],
                                 context'.structs[s].v.instances[i],
                                 context.structs[s].v.fields)]_vars

C9_EarlyReferenceFailsOnlyUndeclared ==
    [][(pc = "resolve" /\ pc' = "error") =>
          NamesUndeclared(context) \/ NamesMissingKey(context)]_vars

AtLine == pc = "lines" /\ idx < Len(arg)

\* the line the loop is about to read, as the branches see it: without its comment
\* and trimmed
TrimmedLine == Trim(strip_inline_comment(arg[idx + 1]))

\* the struct the line names, when the line is a struct header
HeaderAt == struct_def_captures(TrimmedLine)

(***************************************************************************)
(* C11 (SpecDocument).  When a struct header names a struct that is        *)
(* already declared, the struct is, right after the header, as a first     *)
(* declaration leaves it: without fields, primary key, and instances.      *)
(***************************************************************************)
C11_RedeclarationReplaces ==
    [][(AtLine /\ IsSome(HeaderAt) /\ IsSome(get_struct(context, HeaderAt[1]))
           /\ pc' = "lines") =>
          get_struct(context', HeaderAt[1]) = Some(TycoStruct(HeaderAt[1]))]_vars

\* the variants of TycoError
TycoErrors == {"Io", "Parse", "UnknownStruct", "Reference"}

(***************************************************************************)
(* C12 (SpecDocument).  A parse call that does not return a document       *)
(* returns a TycoError: it never ends in a panic.                          *)
(***************************************************************************)
C12_ParseReturns == pc = "error" => err \in TycoErrors \cup {"overflow"}


(***************************************************************************)
(* Files and includes (parser.rs 75-136, 588-590) and the JSON form of a   *)
(* context (context.rs 385-409, value.rs 336-364).  A path is the text of  *)
(* a file name in one directory; the file system maps a path to the lines  *)
(* of the file.                                                            *)
(***************************************************************************)
\* the most calls one run makes
MaxCalls == 2

\* `#include i`
Line_IncludeI == <<"#", "i", "n", "c", "l", "u", "d", "e", " ", "i">>

\* `#include "i"`
Line_IncludeQuotedI == <<"#", "i", "n", "c", "l", "u", "d", "e", " ", "\"", "i", "\"">>

\* `#include m`
Line_IncludeM == <<"#", "i", "n", "c", "l", "u", "d", "e", " ", "m">>

\* `#include z`: no file has this name
Line_IncludeZ == <<"#", "i", "n", "c", "l", "u", "d", "e", " ", "z">>

Path_m == <<"m">>

Path_i == <<"i">>

Path_z == <<"z">>

\* the lines a main file is made of
MainLines == {Line_GlobalW, Line_IncludeI, Line_IncludeQuotedI, Line_IncludeZ}

MainFiles == {<<a>> : a \in MainLines} \cup {<<a, b>> : a \in MainLines, b \in MainLines}

IncludedFiles ==
    {<<>>, <<Line_GlobalX>>, <<Line_IncludeM>>, <<Line_IncludeI, Line_GlobalX>>,
     <<Line_HeaderA, Line_FieldId, Line_BulletKey>>, <<Line_GlobalQuote>>}

FileSystems ==
    {<<[k |-> Path_m, v |-> m], [k |-> Path_i, v |-> i]>> : m \in MainFiles, i \in IncludedFiles}

\* the paths a call is made on
Paths == {Path_m, Path_i, Path_z}

\* trim_matches(|c| c == '"' || c == '\''): the quotes at both ends are dropped
RECURSIVE trim_quotes_start(_)
trim_quotes_start(s) ==
    IF s # <<>> /\ Head(s) \in {"\"", "'"} THEN trim_quotes_start(Tail(s)) ELSE s

RECURSIVE trim_quotes_end(_)
trim_quotes_end(s) ==
    IF s # <<>> /\ s[Len(s)] \in {"\"", "'"}
    THEN trim_quotes_end(SubSeq(s, 1, Len(s) - 1))
    ELSE s

\* line.trim().strip_prefix("#include") on its own
include_rest(trimmed) ==
    IF StartsWith(trimmed, <<"#", "i", "n", "c", "l", "u", "d", "e">>)
    THEN Some(SubSeq(trimmed, 9, Len(trimmed)))
    ELSE None

\* the path an include line names, None for any other line
include_path(line) ==
    IF IsSome(include_rest(Trim(line)))
    THEN Some(trim_quotes_end(trim_quotes_start(Trim(include_rest(Trim(line))[1]))))
    ELSE None

\* what read_file_with_includes leaves: its Result and the set self.included
ReadOk(lines, included) == [ok |-> TRUE, err |-> "", lines |-> lines, included |-> included]

ReadErr(kind, included) == [ok |-> FALSE, err |-> kind, lines |-> <<>>, included |-> included]

RECURSIVE read_file_with_includes(_, _, _)
RECURSIVE read_content(_, _, _, _)
\* result.extend(nested) after the recursive call, `?` on its error
extend(nested, tail, fs, result) ==
    IF nested.ok
    THEN read_content(nested.included, tail, fs, result \o nested.lines)
    ELSE nested

\* a variant of the loop in which the set of included files is restored after
\* every nested call: it holds the files the call is inside of, no others
extend_scoped(nested, included, tail, fs, result) ==
    IF nested.ok
    THEN read_content(included, tail, fs, result \o nested.lines)
    ELSE nested

read_content_scoped(included, content, fs, result) ==
    IF content = <<>> THEN ReadOk(result, included)
    ELSE IF IsSome(include_path(Head(content)))
         THEN extend_scoped(read_file_with_includes(included, include_path(Head(content))[1], fs),
                            included, Tail(content), fs, result)
         ELSE read_content(included, Tail(content), fs, Append(result, Head(content)))

\* the loop over the lines of one file
read_content(included, content, fs, result) ==
    IF content = <<>> THEN ReadOk(result, included)
    ELSE IF IsSome(include_path(Head(content)))
         THEN extend(read_file_with_includes(included, include_path(Head(content))[1], fs),
                     Tail(content), fs, result)
         ELSE read_content(included, Tail(content), fs, Append(result, Head(content)))

\* fs::canonicalize fails on a path that names no file; a path already in
\* self.included yields no lines
read_file_with_includes(included, path, fs) ==
    IF ~map_contains_key(fs, path) THEN ReadErr("Io", included)
    ELSE IF path \in included THEN ReadOk(<<>>, included)
    ELSE read_content(included \cup {path}, map_get(fs, path)[1], fs, <<>>)

(***************************************************************************)
(* JSON values: a tagged record per variant; an object is a map.           *)
(***************************************************************************)
JsonNull == [tag |-> "null"]

RECURSIVE to_json_value(_)
RECURSIVE json_object(_, _, _)
\* the loop over field_order that fills the object of an instance
json_object(instance, keys, obj) ==
    IF keys = <<>> THEN [tag |-> "object", entries |-> obj]
    ELSE IF IsSome(get_attribute(instance, Head(keys)))
         THEN json_object(instance, Tail(keys),
                          map_insert(obj, Head(keys), to_json_value(get_attribute(instance, Head(keys))[1])))
         ELSE json_object(instance, Tail(keys), obj)

to_json_value(value) ==
    CASE value.tag = "Null" -> JsonNull
      [] value.tag = "Bool" -> [tag |-> "bool", b |-> value.b]
      [] value.tag = "Int" -> [tag |-> "number", n |-> value.n]
      [] value.tag = "String" -> [tag |-> "string", text |-> value.s.value]
      [] value.tag \in {"Date", "Time", "DateTime"} -> [tag |-> "string", text |-> value.text]
      [] value.tag = "Array" ->
            [tag |-> "array", items |-> [i \in 1..Len(value.items) |-> to_json_value(value.items[i])]]
      [] value.tag = "Instance" -> json_object(value.inst, value.inst.field_order, <<>>)
      [] value.tag = "Reference" ->
            IF IsSome(value.ref.resolved)
            THEN to_json_value(InstanceV(value.ref.resolved[1]))
            ELSE JsonNull

RECURSIVE json_globals(_, _)
\* the loop over the globals
json_globals(globals, map) ==
    IF globals = <<>> THEN map
    ELSE json_globals(Tail(globals), map_insert(map, Head(globals).k, to_json_value(Head(globals).v)))

\* the array of the instances of one struct
json_instances(instances) ==
    [tag |-> "array",
     items |-> [i \in 1..Len(instances) |->
                   json_object(instances[i], instances[i].field_order, <<>>)]]

RECURSIVE json_structs(_, _)
\* the loop over the structs: one without a primary key is left out
json_structs(structs, map) ==
    IF structs = <<>> THEN map
    ELSE IF has_primary_key(Head(structs).v)
         THEN json_structs(Tail(structs),
                           map_insert(map, Head(structs).k, json_instances(Head(structs).v.instances)))
         ELSE json_structs(Tail(structs), map)

to_json(ctx) ==
    [tag |-> "object", entries |-> json_structs(ctx.structs, json_globals(ctx.globals, <<>>))]

(***************************************************************************)
(* Calls.  What a caller sees of a call: the error kind of an Err, the     *)
(* JSON form of the context of an Ok.                                      *)
(***************************************************************************)
Seen(result) ==
    IF result.ok THEN [ok |-> TRUE, err |-> "", json |-> to_json(result.v)]
    ELSE [ok |-> FALSE, err |-> result.err, json |-> JsonNull]

\* parse_file once the lines are read: parse_lines on them, `?` on a read error;
\* lines are the lines that read_file_with_includes handed to parse_lines
parse_read(read) ==
    [included |-> read.included,
     lines |-> read.lines,
     seen |-> IF read.ok THEN Seen(parse_document(read.lines)) ELSE Seen(Err(read.err))]

\* TycoParser::parse_file on the parser `self`: the call leaves self.included
\* as read_file_with_includes left it
parse_file(self, path, fs) == parse_read(read_file_with_includes(self.included, path, fs))

\* TycoParser::new
TycoParser == [included |-> {}]

\* a variant of load in which the set of included files outlives the call: the
\* files of the calls made before are still in it
load_shared(path, fs) ==
    parse_file([included |-> {returned[i].path : i \in 1..Len(returned)}], path, fs)

\* load: a new parser for the call
load(path, fs) == parse_file(TycoParser, path, fs)

InitFiles ==
    /\ pc = "calls"
    /\ files \in FileSystems
    /\ parser = TycoParser
    /\ returned = <<>>
    /\ context = TycoContext
    /\ state = "TopLevel"
    /\ current_struct = None
    /\ instance_lines = <<>>
    /\ idx = 0
    /\ eof = FALSE
    /\ err = ""
    /\ snapshot = TycoContext
    /\ instance_snapshot = None
    /\ cursor = StartCursor
    /\ arg = <<>>
    /\ res = <<>>

\* parser.parse_file(path) on the one parser the caller keeps
ParseFile ==
    /\ pc = "calls"
    /\ Len(returned) < MaxCalls
    /\ \E path \in Paths : \E call \in {parse_file(parser, path, files)} :
          /\ parser' = [included |-> call.included]
          /\ returned' = Append(returned, [fresh |-> FALSE, path |-> path, seen |-> call.seen,
                                         lines |-> call.lines])
    /\ UNCHANGED <<pc, context, err, loop_vars, render_vars, fn_vars, files>>

\* load(path): the parser of the call is dropped when it returns
Load ==
    /\ pc = "calls"
    /\ Len(returned) < MaxCalls
    /\ \E path \in Paths : \E call \in {load(path, files)} :
          returned' = Append(returned, [fresh |-> TRUE, path |-> path, seen |-> call.seen,
                                        lines |-> call.lines])
    /\ UNCHANGED <<pc, context, err, loop_vars, render_vars, fn_vars, files, parser>>

NextFiles ==
    \/ ParseFile
    \/ Load

SpecFiles == InitFiles /\ [][NextFiles]_vars

\* the calls that have returned, by position
Calls == 1..Len(returned)

\* C13 (SpecFiles). Two calls of parse_file on one parser for the same file
\* return equal documents: when the first call returned a document, the later
\* call returns the same one, for the set of included files of the first call
\* does not reach the second.
C13_IncludedSetPerCall ==
    \A i \in Calls : \A j \in Calls :
       (/\ i < j
        /\ ~returned[i].fresh /\ ~returned[j].fresh
        /\ returned[i].path = returned[j].path
        /\ returned[i].seen.ok)
          => returned[j].seen = returned[i].seen

PassRank(p) ==
    CASE p = "lines" -> 0
      [] p = "coerce" -> 1
      [] p = "index" -> 2
      [] p = "resolve" -> 3
      [] p = "render" -> 4
      [] p = "done" -> 5
      [] OTHER -> 6

\* every entry of every primary index of `after` is an instance that `before`
\* holds in the same struct
IndexedFrom(before, after) ==
    \A i \in 1..Len(after.structs) :
       \A e \in 1..Len(after.structs[i].v.primary_index) :
          /\ i <= Len(before.structs)
          /\ \E n \in 1..Len(before.structs[i].v.instances) :
                after.structs[i].v.primary_index[e].v = before.structs[i].v.instances[n]

\* C15 (SpecDocument). The passes run once each and in the order coercion,
\* indexing, reference resolution, template rendering: a parse call leaves the
\* loop over the lines only when every line is consumed and the buffer of
\* instance lines is flushed, every later step runs the next pass or returns
\* an error, nothing runs after the return, and the indexing pass indexes the
\* instances as the coercion pass left them, before any is rendered.
C15_PassesInOrder ==
    [][/\ pc # "done" /\ pc # "error"
       /\ pc' # "error" => PassRank(pc') = (IF pc' = "lines" THEN 0 ELSE PassRank(pc) + 1)
       /\ pc' = "lines" => pc = "lines"
       /\ pc' = "coerce" => (idx >= Len(arg) /\ instance_lines' = <<>>)
       /\ pc' = "resolve" =>
             /\ IndexedFrom(context, context')
             /\ \A i \in 1..Len(context.structs) :
                   context'.structs[i].v.instances = context.structs[i].v.instances]_vars

\* a parse has returned a document in which an index holds an instance with
\* its template as written while the instance the struct holds is rendered
C15_Witness ==
    /\ pc = "done"
    /\ \E i \in 1..Len(context.structs) :
          /\ context.structs[i].v.primary_index # <<>>
          /\ \E e \in 1..Len(context.structs[i].v.primary_index) :
                \A n \in 1..Len(context.structs[i].v.instances) :
                   context.structs[i].v.primary_index[e].v # context.structs[i].v.instances[n]


\* the passes of TycoContext::render that are still to run
Passes == {"coerce", "index", "resolve", "render"}

\* C16 (SpecDocument). On a document the loop over the lines has accepted,
\* every pass of the pipeline returns: it hands over to the next pass, returns
\* the document, or returns an error of the library; none recurses without end.
C16_PipelineTerminates ==
    [][(pc \in Passes) =>
          \/ pc' \in Passes \cup {"done"}
          \/ pc' = "error" /\ err' \in TycoErrors]_vars


\* the loop over the parts of an instance line meets a positional part once a
\* named part has set using_named
RECURSIVE PositionalAfterNamed(_, _)
PositionalAfter(part, tail, using_named) ==
    IF part = <<>> THEN PositionalAfterNamed(tail, using_named)
    ELSE IF IsSome(split_named_argument(part)) THEN PositionalAfterNamed(tail, TRUE)
    ELSE using_named \/ PositionalAfterNamed(tail, using_named)

PositionalAfterNamed(parts, using_named) ==
    IF parts = <<>> THEN FALSE ELSE PositionalAfter(Trim(Head(parts)), Tail(parts), using_named)

\* the next step of the call hands the buffered instance lines to
\* parse_struct_instances: at a struct header, or at the end of the document
Flushing ==
    /\ pc = "lines"
    /\ IsSome(current_struct)
    /\ instance_lines # <<>>
    /\ \/ idx >= Len(arg)
       \/ AtLine /\ IsSome(HeaderAt) /\ state = "InStructInstances"

\* one of the buffered instance lines has a positional argument after a named one
MixedBuffered ==
    \E n \in 1..Len(instance_lines) :
       PositionalAfterNamed(split_top_level(instance_lines[n], ","), FALSE)

\* C17 (SpecDocument). An instance line in which a positional argument
\* follows a named one aborts the parse with a Parse error when the buffered
\* lines are parsed, and the call returns no document: no instance of the
\* line is added to the struct.
C17_PositionalAfterNamedFails ==
    [][(Flushing /\ MixedBuffered) =>
          /\ pc' = "error"
          /\ err' = "Parse"
          /\ context' = TycoContext]_vars

\* the parse of `- id: a, 7` has been aborted at the header that flushes it
C17_Witness ==
    /\ arg = Doc_NamedThenPositionalFlushed
    /\ pc = "error"
    /\ err = "Parse"
    /\ idx = 4


\* the value of a field line, as parse_value trims it
ValueOf(captures) == Trim(strip_inline_comment(captures[1].value))

\* the types parse_value reads without a struct call
BaseTypes == {T_bool, T_int, T_str, T_date, T_time, T_datetime}

\* line k of the document is a header of the struct `name`
DeclaredAt(k, name) == struct_def_captures(Trim(strip_inline_comment(arg[k]))) = Some(name)

\* a field line with the captures `field` whose value is the struct call `call`
\* is an inline instance literal in which a positional argument follows a
\* named one: the call is of a struct without primary key declared above line k
MixedInlineCall(k, field, call) ==
    /\ IsSome(field)
    /\ ~field[1].is_array
    /\ field[1].type_name \notin BaseTypes
    /\ IsSome(call)
    /\ \E j \in 1..(k - 1) : DeclaredAt(j, call[1][1])
    /\ is_inline_struct(get_struct(context, call[1][1]))
    /\ PositionalAfterNamed(split_top_level(call[1][2], ","), FALSE)

\* line k of the document is such a field line
MixedInlineLiteral(k) ==
    /\ IsNone(struct_def_captures(Trim(strip_inline_comment(arg[k]))))
    /\ IsSome(field_captures(arg[k]))
    /\ MixedInlineCall(k, field_captures(arg[k]),
                       struct_call_captures(ValueOf(field_captures(arg[k]))))

\* C18 (SpecDocument). An inline instance literal of a declared struct
\* without primary key in which a positional argument follows a named one
\* aborts the parse: no parse of a document with such a literal returns a
\* document.
C18_InlinePositionalAfterNamedFails ==
    pc = "done" => \A k \in 1..Len(arg) : ~MixedInlineLiteral(k)


\* the instances a value holds: itself, the items of an array, the attributes
\* of an instance, the payload of a resolved reference
RECURSIVE InstancesIn(_)
InstancesIn(value) ==
    CASE value.tag = "Array" -> UNION {InstancesIn(value.items[i]) : i \in 1..Len(value.items)}
      [] value.tag = "Instance" ->
            {value.inst} \cup
            UNION {InstancesIn(value.inst.fields[i].v) : i \in 1..Len(value.inst.fields)}
      [] value.tag = "Reference" ->
            IF IsSome(value.ref.resolved)
            THEN InstancesIn(InstanceV(value.ref.resolved[1]))
            ELSE {}
      [] OTHER -> {}

\* the instances a struct holds, and those inside them
StructInstances(struct) ==
    UNION {InstancesIn(InstanceV(struct.instances[n])) : n \in 1..Len(struct.instances)}

\* every instance of a document: in the globals and in the structs
DocumentInstances(ctx) ==
    UNION {InstancesIn(ctx.globals[i].v) : i \in 1..Len(ctx.globals)}
       \cup UNION {StructInstances(ctx.structs[s].v) : s \in 1..Len(ctx.structs)}

\* the names of the fields a struct declares
FieldNames(struct) == {struct.fields[i].name : i \in 1..Len(struct.fields)}

\* the names of the attributes an instance holds
AttributeNames(inst) ==
    {inst.field_order[i] : i \in 1..Len(inst.field_order)}
       \cup {inst.fields[i].k : i \in 1..Len(inst.fields)}

\* C19 (SpecDocument). In the document a parse returns, every instance of a
\* declared struct, from an instance line or from an inline literal, holds
\* attributes of the names of the schema only: no _argN, no undeclared name.
C19_OnlySchemaFields ==
    pc = "done" =>
       \A inst \in DocumentInstances(context) :
          IsSome(get_struct(context, inst.struct_name)) =>
             AttributeNames(inst) \subseteq FieldNames(get_struct(context, inst.struct_name)[1])


\* a triple-quoted literal is open in the text and not closed
StillOpen(value_str) ==
    has_unclosed_delimiter(value_str, TripleDouble) \/ has_unclosed_delimiter(value_str, TripleSingle)

\* the value of the field line with the captures `field` opens a triple-quoted
\* literal that the lines after it, up to the end of the document, do not close
Unterminated(field, rest) ==
    /\ IsSome(field)
    /\ StillOpen(field[1].value)
    /\ StillOpen(complete_literal(field[1].value, rest, 0).value)

\* the loop is at such a field line
UnterminatedAt ==
    /\ AtLine
    /\ TrimmedLine # <<>>
    /\ IsNone(HeaderAt)
    /\ Unterminated(field_captures(arg[idx + 1]), LinesAfter)

\* C20 (SpecDocument). A field line whose value opens a triple-quoted
\* literal that is not closed before the end of the document aborts the
\* parse with an error, whatever the declared type, str included.
C20_UnterminatedLiteralFails ==
    [][UnterminatedAt => pc' = "error"]_vars


\* the positions of the fields of a struct that are flagged as primary key
KeyFields(struct) == {i \in 1..Len(struct.fields) : struct.fields[i].is_primary_key}

\* the struct has at most one primary-key field, and primary_key_field names it
OneKey(struct) ==
    /\ Cardinality(KeyFields(struct)) <= 1
    /\ \A i \in KeyFields(struct) : struct.primary_key_field = Some(struct.fields[i].name)
    /\ KeyFields(struct) = {} => struct.primary_key_field = None

\* C21 (SpecDocument). In every state of a parse, every struct has at most
\* one field flagged as primary key, and the primary-key field name the
\* struct records is the name of that field.
C21_OnePrimaryKey ==
    \A s \in 1..Len(context.structs) : OneKey(context.structs[s].v)

\* the names in a field list are pairwise different
UniqueFields(struct) ==
    \A i \in 1..Len(struct.fields) : \A j \in 1..Len(struct.fields) :
       struct.fields[i].name = struct.fields[j].name => i = j

\* the names in the struct map are pairwise different
UniqueStructs(ctx) ==
    \A s \in 1..Len(ctx.structs) : \A t \in 1..Len(ctx.structs) :
       ctx.structs[s].k = ctx.structs[t].k => s = t

\* C22 (SpecDocument). In every state of a parse, the field names of every
\* struct are pairwise different and so are the struct names of the document.
C22_UniqueNames ==
    /\ UniqueStructs(context)
    /\ \A s \in 1..Len(context.structs) : UniqueFields(context.structs[s].v)


(***************************************************************************)
(* SpecInteger: parse_integer on its own, applied to a token of at most    *)
(* MaxStrLen characters.  arg is the token, res the Result.                *)
(***************************************************************************)
IntegerAlphabet == {"-", "+", "0", "1", "2", "8", "x", "F"}

InitInteger ==
    /\ pc = "token"
    /\ arg \in SeqsUpTo(IntegerAlphabet, MaxStrLen)
    /\ res = <<>>
    /\ context = TycoContext
    /\ state = "TopLevel"
    /\ current_struct = None
    /\ instance_lines = <<>>
    /\ idx = 0
    /\ eof = FALSE
    /\ err = ""
    /\ snapshot = TycoContext
    /\ instance_snapshot = None
    /\ cursor = StartCursor
    /\ NoFiles

\* the token is parsed as an integer
ParseInteger ==
    /\ pc = "token"
    /\ pc' = "integer"
    /\ res' = parse_integer(arg)
    /\ UNCHANGED <<context, err, arg, loop_vars, render_vars, file_vars>>

NextInteger == ParseInteger

SpecInteger == InitInteger /\ [][NextInteger]_vars

\* every character of the text is a digit of the radix, and there is one
AllDigits(text, radix) ==
    /\ text # <<>>
    /\ \A i \in 1..Len(text) : DigitValue(text[i], radix) >= 0

\* the number the digits write in the radix
RECURSIVE DigitsValue(_, _, _)
DigitsValue(text, radix, acc) ==
    IF text = <<>> THEN acc
    ELSE DigitsValue(Tail(text), radix, acc * radix + DigitValue(Head(text), radix))

\* the radix an unsigned literal is written in: 16, 8 or 2 after 0x, 0o, 0b
RadixOf(body) ==
    IF Len(body) >= 2 /\ body[1] = "0" /\ body[2] \in {"x", "o", "b"}
    THEN CASE body[2] = "x" -> 16 [] body[2] = "o" -> 8 [] body[2] = "b" -> 2
    ELSE 10

\* the digits of an unsigned literal, after its prefix
DigitsOf(body) == IF RadixOf(body) = 10 THEN body ELSE SubSeq(body, 3, Len(body))

\* the literal without its leading `-`
Unsigned(token) == IF token # <<>> /\ Head(token) = "-" THEN Tail(token) ELSE token

\* an optional single `-`, then decimal digits or a prefix and digits of its base
IsIntLiteral(token) == AllDigits(DigitsOf(Unsigned(token)), RadixOf(Unsigned(token)))

\* the value an int literal writes
IntLiteralValue(token) ==
    IF token # <<>> /\ Head(token) = "-"
    THEN -DigitsValue(DigitsOf(Unsigned(token)), RadixOf(Unsigned(token)), 0)
    ELSE DigitsValue(DigitsOf(Unsigned(token)), RadixOf(Unsigned(token)), 0)

\* C23 (SpecInteger). A token is accepted exactly when it is an int literal
\* (an optional single `-`, then decimal digits or a 0x/0o/0b prefix and
\* digits of its base) whose value is in the range of the integer type; it
\* then yields that value, and every other token is a Parse error.
C23_IntLiteralsExactly ==
    pc = "integer" =>
       IF IsIntLiteral(arg) /\ IntLiteralValue(arg) >= IntMin /\ IntLiteralValue(arg) <= IntMax
       THEN res.ok /\ res.v = IntLiteralValue(arg)
       ELSE ~res.ok /\ res.err = "Parse"


\* how often a line is in a sequence of lines
Occurrences(lines, line) == Cardinality({i \in 1..Len(lines) : lines[i] = line})

\* how often a line is in the files of the file system, all taken together
RECURSIVE OccurrencesInFiles(_, _)
OccurrencesInFiles(fs, line) ==
    IF fs = <<>> THEN 0
    ELSE Occurrences(Head(fs).v, line) + OccurrencesInFiles(Tail(fs), line)

\* the file includes the path
Includes(fs, from, to) ==
    /\ map_contains_key(fs, from)
    /\ \E i \in 1..Len(map_get(fs, from)[1]) : include_path(map_get(fs, from)[1][i]) = Some(to)

\* C24 (SpecFiles). Every call that reads a file returns, whatever the
\* includes, and the lines it hands to the parser hold the lines of every file
\* at most once: no line is there more often than the files hold it, and no
\* include line is among them.
C24_EachFileOnce ==
    \A c \in Calls :
       \A n \in 1..Len(returned[c].lines) :
          /\ IsNone(include_path(returned[c].lines[n]))
          /\ Occurrences(returned[c].lines, returned[c].lines[n])
                <= OccurrencesInFiles(files, returned[c].lines[n])

\* a load of m has returned the lines of both files where m includes i twice
\* and i includes itself
C24_Witness ==
    \E c \in Calls :
       /\ returned[c].fresh
       /\ returned[c].path = Path_m
       /\ map_get(files, Path_m) = Some(<<Line_IncludeI, Line_IncludeQuotedI>>)
       /\ Includes(files, Path_i, Path_i)
       /\ returned[c].lines = <<Line_GlobalX>>
       /\ returned[c].seen.ok


(***************************************************************************)
(* SpecRender: a parse call as in SpecDocument, and then the caller's call *)
(* of render() on the context the parse returned.                          *)
(***************************************************************************)
\* TycoContext::render as a function of the context: Result<TycoContext>
render_document(ctx) ==
    after_rendering(after_resolution(after_indexing(resolve_inline_instances(ctx))))

\* context.render() on the returned document
RenderAgain ==
    /\ pc = "done"
    /\ \E again \in {render_document(context)} :
          IF again.ok
          THEN /\ pc' = "again"
               /\ context' = again.v
               /\ UNCHANGED <<state, current_struct, instance_lines, err, snapshot,
                              instance_snapshot, cursor>>
          ELSE Abort(again.err)
    /\ UNCHANGED <<idx, eof, arg, res, file_vars>>

NextRender ==
    \/ ReadLine
    \/ EndOfDocument
    \/ CoercionPass
    \/ IndexingPass
    \/ ReferencePass
    \/ TemplatePass
    \/ RenderAgain

SpecRender == InitDocument /\ [][NextRender]_vars

\* the instances of every struct of a context, by struct name
StoredInstances(ctx) ==
    [s \in 1..Len(ctx.structs) |-> [k |-> ctx.structs[s].k, v |-> ctx.structs[s].v.instances]]

\* C25 (SpecRender). render() called on the document a parse has returned
\* succeeds and changes nothing: the globals, the instances of every struct
\* with the payloads of their references, and the JSON form are as before.
C25_RenderIsIdempotent ==
    [][(pc = "done") =>
          /\ pc' = "again"
          /\ context'.globals = context.globals
          /\ StoredInstances(context') = StoredInstances(context)
          /\ to_json(context') = to_json(context)]_vars


(***************************************************************************)
(* SpecComment: strip_inline_comment on its own, applied to a line of at   *)
(* most MaxLineLen characters.  arg is the line, res what is left of it.   *)
(***************************************************************************)
\* the longest line of SpecComment
MaxLineLen == 5

CommentAlphabet == {"\"", "'", "#", "\\", "a"}

InitComment ==
    /\ pc = "line"
    /\ arg \in SeqsUpTo(CommentAlphabet, MaxLineLen)
    /\ res = <<>>
    /\ context = TycoContext
    /\ state = "TopLevel"
    /\ current_struct = None
    /\ instance_lines = <<>>
    /\ idx = 0
    /\ eof = FALSE
    /\ err = ""
    /\ snapshot = TycoContext
    /\ instance_snapshot = None
    /\ cursor = StartCursor
    /\ NoFiles

\* the comment of the line is stripped
StripComment ==
    /\ pc = "line"
    /\ pc' = "stripped"
    /\ res' = strip_inline_comment(arg)
    /\ UNCHANGED <<context, err, arg, loop_vars, render_vars, file_vars>>

NextComment == StripComment

SpecComment == InitComment /\ [][NextComment]_vars

\* the position of the first `#` outside every string literal, 0 when there is
\* none: a literal opened at `open` by the quote `quote_char` (0 and "" outside
\* a literal) is closed by the next such quote that is not escaped, that is,
\* not preceded by an odd number of backslashes
RECURSIVE CommentStart(_, _, _, _)
CommentStart(line, i, open, quote_char) ==
    IF i > Len(line) THEN 0
    ELSE IF open = 0
    THEN IF line[i] = "#" THEN i
         ELSE IF line[i] \in {"\"", "'"} THEN CommentStart(line, i + 1, i, line[i])
         ELSE CommentStart(line, i + 1, 0, "")
    ELSE IF line[i] = quote_char /\ ~is_escaped(SubSeq(line, open + 1, i - 1))
         THEN CommentStart(line, i + 1, 0, "")
         ELSE CommentStart(line, i + 1, open, quote_char)

\* the line without its comment
WithoutComment(line, start) == IF start > 0 THEN SubSeq(line, 1, start - 1) ELSE line

\* C26 (SpecComment). Comment stripping removes the text from the first `#`
\* outside every string literal to the end of the line, and nothing when
\* there is no such `#`; a quote closes its literal unless it is escaped, so
\* a literal that ends in an escaped backslash is closed.
C26_CommentFromFirstUnquotedHash ==
    pc = "stripped" => res = WithoutComment(arg, CommentStart(arg, 1, 0, ""))


\* the arguments of an instance line: its parts, trimmed, the empty ones left out
Arguments(line) ==
    SelectSeq([i \in 1..Len(split_top_level(line, ",")) |-> Trim(split_top_level(line, ",")[i])],
              LAMBDA part : part # <<>>)

\* the positional ones among them, in their order
PositionalArguments(line) ==
    SelectSeq(Arguments(line), LAMBDA part : IsNone(split_named_argument(part)))

\* the field names the named arguments of the line give
NamedFields(line) ==
    {split_named_argument(Arguments(line)[i])[1][1] :
        i \in {j \in 1..Len(Arguments(line)) : IsSome(split_named_argument(Arguments(line)[j]))}}

\* the struct the buffered instance lines are parsed against
FlushedStruct == get_struct(context, current_struct[1])

\* one of the buffered lines has more positional arguments than the struct has fields
TooManyBuffered ==
    \E n \in 1..Len(instance_lines) :
       Len(PositionalArguments(instance_lines[n])) > Len(FlushedStruct[1].fields)

\* a later argument of the line is stored under the name of field i as well
StoredLater(line, fields, i) ==
    \/ fields[i].name \in NamedFields(line)
    \/ \E j \in (i + 1)..Len(PositionalArguments(line)) : fields[j].name = fields[i].name

\* the instance holds positional argument i of its line under the name of
\* field i, as a value of the type of that field
BoundByPosition(inst, line, fields, ctx) ==
    /\ Len(PositionalArguments(line)) <= Len(fields)
    /\ \A i \in 1..Len(PositionalArguments(line)) :
          \/ StoredLater(line, fields, i)
          \/ get_attribute(inst, fields[i].name) =
                Some(parse_value(PositionalArguments(line)[i], field_type_name(fields[i]), ctx).v)

\* the instances `after` holds beyond those of `before`
Attached(before, after) ==
    SubSeq(after.instances, Len(before.instances) + 1, Len(after.instances))

\* every buffered line has become one attached instance, bound by position
AttachedByPosition(before, after, ctx) ==
    /\ Len(Attached(before, after)) = Len(instance_lines)
    /\ \A n \in 1..Len(instance_lines) :
          BoundByPosition(Attached(before, after)[n], instance_lines[n], before.fields, ctx)

FieldAt == field_captures(arg[idx + 1])

\* the line at idx is a struct-scoped line: a field declaration that starts with
\* whitespace, or an instance bullet
StructScopedAt ==
    /\ AtLine
    /\ TrimmedLine # <<>>
    /\ IsNone(HeaderAt)
    /\ \/ IsSome(FieldAt) /\ IsSpace(arg[idx + 1][1])
       \/ IsNone(FieldAt) /\ StartsWith(TrimmedLine, <<"-">>)

\* C28 (SpecDocument). A struct-scoped line read while no struct header has
\* been opened aborts the parse with a Parse error, for an indented field
\* declaration and for an instance bullet alike, and the call returns no
\* document: no global, field or instance is recorded for the line.
C28_StructScopedBeforeHeaderFails ==
    [][(StructScopedAt /\ IsNone(current_struct)) =>
          /\ pc' = "error"
          /\ err' = "Parse"
          /\ context' = TycoContext]_vars

\* the parse of a global followed by the bullet `- a, 7` has been aborted at the bullet
C28_Witness ==
    /\ arg = Doc_GlobalThenBullet
    /\ pc = "error"
    /\ err = "Parse"
    /\ idx = 1


\* the default update the line at idx is, when DEFAULT_UPDATE_RE matches it
UpdateAt == default_update_captures(arg[idx + 1])

\* the struct that is open when the line at idx is read
OpenStruct == get_struct(context, current_struct[1])

\* the line at idx is read as a default update, and names a field the open
\* struct has not declared
UnknownUpdateAt ==
    /\ AtLine
    /\ TrimmedLine # <<>>
    /\ IsNone(HeaderAt)
    /\ IsNone(FieldAt)
    /\ IsSome(UpdateAt)
    /\ IsSome(current_struct)
    /\ IsSome(OpenStruct)
    /\ IsNone(find_field(OpenStruct[1].fields, UpdateAt[1].field_name))

\* C29 (SpecDocument). A default-update line, with or without a value, that
\* is read while a struct is open and names a field the struct has not
\* declared aborts the parse with a Parse error; the call returns no
\* document, so no default of the struct is changed.
C29_UnknownDefaultFails ==
    [][UnknownUpdateAt =>
          /\ pc' = "error"
          /\ err' = "Parse"
          /\ context' = TycoContext]_vars

\* the parse has been aborted at the valueless update ` zz:` of a struct that
\* declares id and c
C29_Witness ==
    /\ arg = Doc_UpdateUnknownEmpty
    /\ pc = "error"
    /\ err = "Parse"
    /\ idx = 3


(***************************************************************************)
(* SpecTime: normalize_time on its own, applied to a time value made of a  *)
(* head, an optional `.` with up to MaxFraction digits, and a tail.  arg   *)
(* is the value, res the normalized value.                                 *)
(***************************************************************************)
\* most digits after the `.` of a value of SpecTime
MaxFraction == 7

\* what stands before the `.`
TimeHeads == {<<>>, <<"1">>, <<"1", ":", "2">>}

\* what follows the fractional digits: a zone, an offset, a second `.`
TimeTails == {<<>>, <<"Z">>, <<"+", "1">>, <<".", "5">>, <<":">>}

\* the fractional digits
TimeFractions == SeqsUpTo({"0", "5"}, MaxFraction)

\* the values with fractional seconds
Fractional == {h \o <<".">> \o d \o t : h \in TimeHeads, d \in TimeFractions, t \in TimeTails}

\* the values without `.`
Whole == {h \o t : h \in TimeHeads, t \in {<<>>, <<"Z">>, <<"+", "1">>, <<":">>}}

TimeValues == Fractional \cup Whole

InitTime ==
    /\ pc = "time"
    /\ arg \in TimeValues
    /\ res = <<>>
    /\ context = TycoContext
    /\ state = "TopLevel"
    /\ current_struct = None
    /\ instance_lines = <<>>
    /\ idx = 0
    /\ eof = FALSE
    /\ err = ""
    /\ snapshot = TycoContext
    /\ instance_snapshot = None
    /\ cursor = StartCursor
    /\ NoFiles

\* the value is normalized
NormalizeTime ==
    /\ pc = "time"
    /\ pc' = "normalized"
    /\ res' = normalize_time(arg)
    /\ UNCHANGED <<context, err, arg, loop_vars, render_vars, file_vars>>

NextTime == NormalizeTime

SpecTime == InitTime /\ [][NextTime]_vars

\* the characters of the value up to and including its first `.`; the whole
\* value when it has none
RECURSIVE ThroughDot(_)
ThroughDot(value) ==
    IF value = <<>> THEN <<>>
    ELSE IF Head(value) = "." THEN <<".">>
    ELSE <<Head(value)>> \o ThroughDot(Tail(value))

\* the digits the text starts with
RECURSIVE LeadingDigits(_)
LeadingDigits(text) ==
    IF text # <<>> /\ IsDigit(Head(text)) THEN <<Head(text)>> \o LeadingDigits(Tail(text))
    ELSE <<>>

\* the digits cut or zero-padded to six
RECURSIVE SixDigits(_)
SixDigits(digits) ==
    IF Len(digits) >= 6 THEN SubSeq(digits, 1, 6) ELSE SixDigits(Append(digits, "0"))

\* the value with nothing but its fractional digits changed
WithSixDigits(value, head, rest) ==
    head \o SixDigits(LeadingDigits(rest))
         \o SubSeq(rest, Len(LeadingDigits(rest)) + 1, Len(rest))

\* C30 (SpecTime). Normalizing a time value changes nothing but the digits
\* that follow its first `.`, which become exactly six (zero-padded or cut):
\* the characters up to the `.` and those after the fractional digits are
\* kept; a value without `.` comes back unchanged; and normalizing the
\* result again returns it unchanged.
C30_OnlyFractionChanges ==
    pc = "normalized" =>
       /\ IF \E i \in 1..Len(arg) : arg[i] = "."
          THEN res = WithSixDigits(arg, ThroughDot(arg),
                                   SubSeq(arg, Len(ThroughDot(arg)) + 1, Len(arg)))
          ELSE res = arg
       /\ normalize_time(res) = res


\* the value tree holds a Reference without payload, at any depth: through
\* arrays, nested instances, and the payloads of resolved References
RECURSIVE HoldsUnresolved(_)
HoldsUnresolved(value) ==
    CASE value.tag = "Reference" ->
            \/ IsNone(value.ref.resolved)
            \/ HoldsUnresolved(InstanceV(value.ref.resolved[1]))
      [] value.tag = "Array" ->
            \E i \in DOMAIN value.items : HoldsUnresolved(value.items[i])
      [] value.tag = "Instance" ->
            \E i \in DOMAIN value.inst.fields : HoldsUnresolved(value.inst.fields[i].v)
      [] OTHER -> FALSE

\* some global or some instance of the document holds a Reference without payload
DocumentHoldsUnresolved(ctx) ==
    \/ \E g \in DOMAIN ctx.globals : HoldsUnresolved(ctx.globals[g].v)
    \/ \E s \in DOMAIN ctx.structs :
          \E i \in DOMAIN ctx.structs[s].v.instances :
             HoldsUnresolved(InstanceV(ctx.structs[s].v.instances[i]))

\* C31 (SpecDocument). After a successful parse no Reference of the document
\* is without payload, the References inside the payload of another
\* Reference included.
C31_NoUnresolvedReference ==
    pc = "done" => ~DocumentHoldsUnresolved(context)


(***************************************************************************)
(* SpecInstance: one TycoInstance under its own methods.  res is the       *)
(* instance, idx the number of calls made on it so far.                    *)
(***************************************************************************)
\* most calls made on the instance
MaxOps == 4

\* the field names the calls draw from
InstanceNames == {<<"a">>, <<"b">>, <<"c">>}

\* the values the calls store
InstanceValues == {NullV, BoolV(TRUE)}

\* a text field of the schema
SchemaField(name) == FieldSchema(name, T_str, FALSE, FALSE, FALSE, None)

\* the schemas handed to enforce_order_from_schema: up to two fields of different names
InstanceSchemas ==
    {<<>>}
        \cup {<<SchemaField(n)>> : n \in InstanceNames}
        \cup {schema \in {<<SchemaField(n), SchemaField(m)>> :
                               n \in InstanceNames, m \in InstanceNames} :
                 schema[1].name # schema[2].name}

\* the loop of rename_field over field_order: the first `from` becomes `to`
RECURSIVE replace_first(_, _, _)
replace_first(order, from, to) ==
    IF order = <<>> THEN <<>>
    ELSE IF Head(order) = from THEN <<to>> \o Tail(order)
    ELSE <<Head(order)>> \o replace_first(Tail(order), from, to)

\* TycoInstance::rename_field
rename_field(inst, from, to) ==
    IF ~map_contains_key(inst.fields, from) THEN inst
    ELSE [inst EXCEPT
             !.field_order = IF \E i \in 1..Len(@) : @[i] = from
                             THEN replace_first(@, from, to)
                             ELSE Append(@, to),
             !.fields = map_insert(map_shift_remove(@, from), to, map_get(@, from)[1])]

InitInstance ==
    /\ pc = "instance"
    /\ res = TycoInstance(<<"A">>)
    /\ idx = 0
    /\ arg = <<>>
    /\ context = TycoContext
    /\ state = "TopLevel"
    /\ current_struct = None
    /\ instance_lines = <<>>
    /\ eof = FALSE
    /\ err = ""
    /\ snapshot = TycoContext
    /\ instance_snapshot = None
    /\ cursor = StartCursor
    /\ NoFiles

SetAttribute ==
    /\ pc = "instance"
    /\ idx < MaxOps
    /\ \E name \in InstanceNames, value \in InstanceValues :
          res' = set_attribute(res, name, value)
    /\ idx' = idx + 1
    /\ UNCHANGED <<pc, context, err, arg, state, current_struct, instance_lines, eof,
                    render_vars, file_vars>>

RemoveAttribute ==
    /\ pc = "instance"
    /\ idx < MaxOps
    /\ \E name \in InstanceNames : res' = remove_attribute(res, name)
    /\ idx' = idx + 1
    /\ UNCHANGED <<pc, context, err, arg, state, current_struct, instance_lines, eof,
                    render_vars, file_vars>>

RenameField ==
    /\ pc = "instance"
    /\ idx < MaxOps
    /\ \E from \in InstanceNames, to \in InstanceNames : res' = rename_field(res, from, to)
    /\ idx' = idx + 1
    /\ UNCHANGED <<pc, context, err, arg, state, current_struct, instance_lines, eof,
                    render_vars, file_vars>>

EnforceOrder ==
    /\ pc = "instance"
    /\ idx < MaxOps
    /\ \E schema \in InstanceSchemas : res' = enforce_order_from_schema(res, schema)
    /\ idx' = idx + 1
    /\ UNCHANGED <<pc, context, err, arg, state, current_struct, instance_lines, eof,
                    render_vars, file_vars>>

NextInstance == SetAttribute \/ RemoveAttribute \/ RenameField \/ EnforceOrder

SpecInstance == InitInstance /\ [][NextInstance]_vars

\* field_order lists the keys of the fields map, each once
OrderListsKeys(inst) ==
    /\ \A i \in 1..Len(inst.field_order) : map_contains_key(inst.fields, inst.field_order[i])
    /\ \A i \in 1..Len(inst.fields) :
          \E j \in 1..Len(inst.field_order) : inst.field_order[j] = inst.fields[i].k
    /\ \A i \in 1..Len(inst.field_order) :
          \A j \in 1..Len(inst.field_order) :
             inst.field_order[i] = inst.field_order[j] => i = j

\* C32 (SpecInstance). After every sequence of set_attribute,
\* remove_attribute, rename_field and enforce_order_from_schema calls,
\* field_order lists exactly the keys of the fields map, each exactly once.
C32_OrderListsKeys ==
    pc = "instance" => OrderListsKeys(res)


\* what the iteration of the loop on the line at idx does
StepAt == dispatch_line(PS, arg[idx + 1], LinesAfter)

\* the five line forms, as the branches of the loop that apply them
LineForms == {"header", "field", "global", "default", "bullet", "continuation"}

\* C33 (SpecDocument). No input line that is not blank once its comment is
\* stripped is passed over: the iteration that reads it applies it as a
\* struct header, a field or global declaration, a default update, an
\* instance bullet or a continuation, or the parse fails.
C33_NoLineDropped ==
    [][(AtLine /\ TrimmedLine # <<>>) =>
          \/ pc' = "error"
          \/ StepAt.kind \in LineForms]_vars


(***************************************************************************)
(* SpecCoerce: one argument text of an inline instance, read for an int    *)
(* or a bool field in the two ways of the source: as parse_inline_instance *)
(* stores it and coerce_value converts it, and as parse_value reads the    *)
(* same text.  arg is [text, type_name], res is [coerced, parsed].         *)
(***************************************************************************)
\* the characters of the integer texts
CoerceAlphabet == {"0", "1", "7", "x", "F", "-"}

\* the words tried for a bool field
CoerceWords ==
    {<<"t", "r", "u", "e">>, <<"f", "a", "l", "s", "e">>, <<"T", "r", "u", "e">>,
     <<"y", "e", "s">>, <<"n", "u", "l", "l">>}

\* the argument texts: split_top_level hands on no empty part
CoerceTexts == (SeqsUpTo(CoerceAlphabet, MaxStrLen) \cup CoerceWords) \ {<<>>}

\* TycoValue::String(parse_string_value(part.trim())?) and then coerce_value
coerce_argument(str, schema) ==
    IF ~str.ok THEN Err(str.err) ELSE coerce_value(StringV(str.v), schema)

InitCoerce ==
    /\ pc = "argument"
    /\ arg \in [text : CoerceTexts, type_name : {T_int, T_bool}]
    /\ res = <<>>
    /\ context = TycoContext
    /\ state = "TopLevel"
    /\ current_struct = None
    /\ instance_lines = <<>>
    /\ idx = 0
    /\ eof = FALSE
    /\ err = ""
    /\ snapshot = TycoContext
    /\ instance_snapshot = None
    /\ cursor = StartCursor
    /\ NoFiles

\* the text is read both ways
CoerceArgument ==
    /\ pc = "argument"
    /\ pc' = "coerced"
    /\ res' = [coerced |-> coerce_argument(parse_string_value(Trim(arg.text)),
                                           FieldSchema(<<"n">>, arg.type_name,
                                                       FALSE, FALSE, FALSE, None)),
               parsed |-> parse_value(arg.text, arg.type_name, TycoContext)]
    /\ UNCHANGED <<context, err, arg, loop_vars, render_vars, file_vars>>

NextCoerce == CoerceArgument

SpecCoerce == InitCoerce /\ [][NextCoerce]_vars

\* C34 (SpecCoerce). Coercing the argument of an inline instance for an int
\* or a bool field agrees with the value literal parser on the same text: it
\* yields the same typed value when the literal parser accepts the text, and
\* fails when the literal parser rejects it.
C34_CoercionAgreesWithLiterals ==
    pc = "coerced" =>
       IF res.parsed.ok
       THEN res.coerced.ok /\ res.coerced.v = res.parsed.v
       ELSE ~res.coerced.ok

\* the text `0x1F`, read for an int field, is rejected by the coercion and
\* accepted by the literal parser
HexArgumentDiffers ==
    /\ pc = "coerced"
    /\ arg = [text |-> <<"0", "x", "1", "F">>, type_name |-> T_int]
    /\ ~res.coerced.ok
    /\ res.parsed.ok
    /\ res.parsed.v = IntV(31)

\* the text `yes`, read for a bool field, is coerced to false and rejected
\* by the literal parser
WordArgumentDiffers ==
    /\ pc = "coerced"
    /\ arg = [text |-> <<"y", "e", "s">>, type_name |-> T_bool]
    /\ res.coerced.ok
    /\ res.coerced.v = BoolV(FALSE)
    /\ ~res.parsed.ok


\* the positions of the instances of the struct whose primary key reads as `key`
KeyedAt(struct_def, key) ==
    {i \in 1..Len(struct_def.instances) : HasKey(struct_def, struct_def.instances[i], key)}

\* the last instance of the struct whose primary key reads as `key`
LastKeyed(struct_def, key) ==
    struct_def.instances[CHOOSE i \in KeyedAt(struct_def, key) :
                            \A j \in KeyedAt(struct_def, key) : j <= i]

\* the primary-key texts of the instances of the struct, in the order of the list
KeyTexts(struct_def) ==
    [i \in 1..Len(struct_def.instances) |->
        IF IsSome(struct_def.primary_key_field)
           /\ IsSome(get_attribute(struct_def.instances[i], struct_def.primary_key_field[1]))
        THEN to_template_text(get_attribute(struct_def.instances[i],
                                            struct_def.primary_key_field[1])[1])
        ELSE <<>>]

\* every struct of the document lists the instances, key by key, that it listed before
SameInstanceLists(before, after) ==
    /\ Len(after.structs) = Len(before.structs)
    /\ \A s \in 1..Len(before.structs) :
          KeyTexts(after.structs[s].v) = KeyTexts(before.structs[s].v)

\* the index of every struct with a primary key maps the key of each of its
\* instances to the last instance of that key
IndexTakesLast(ctx) ==
    \A s \in 1..Len(ctx.structs) :
       IsSome(ctx.structs[s].v.primary_key_field) =>
          \A i \in 1..Len(ctx.structs[s].v.instances) :
             KeyedAt(ctx.structs[s].v, KeyTexts(ctx.structs[s].v)[i]) # {}
                => find_by_primary_key(ctx.structs[s].v, KeyTexts(ctx.structs[s].v)[i])
                      = Some(LastKeyed(ctx.structs[s].v, KeyTexts(ctx.structs[s].v)[i]))

\* every Reference of the document after the pass holds a copy of the last
\* instance of its key in the document before the pass
ReferencesTakeLast(before, after) ==
    \A ref \in TreeReferences(after) :
       (DeclaresKey(before, ref.struct_name) /\ Targets(before, ref) # {}) =>
          ref.resolved = Some(LastKeyed(get_struct(before, ref.struct_name)[1],
                                        ref.primary_key))

\* C35 (SpecDocument). When several instances of a struct have the same
\* primary-key text, the indexing pass maps the key to the instance that is
\* last in the struct's instance list, the reference-resolution pass gives
\* every Reference of that key a copy of that last instance, and both passes
\* leave every instance, the colliding ones included, in the list.
C35_LastInstanceTakesKey ==
    [][/\ (pc = "index" /\ pc' = "resolve") =>
             /\ IndexTakesLast(context')
             /\ SameInstanceLists(context, context')
       /\ (pc = "resolve" /\ pc' = "render") =>
             /\ ReferencesTakeLast(context, context')
             /\ SameInstanceLists(context, context')]_vars

\* two instances have the key a, and the Reference A(a) holds the second, of count 7
C35_Witness ==
    /\ arg = Doc_Duplicate
    /\ pc = "render"
    /\ Cardinality(KeyedAt(context.structs[1].v, <<"a">>)) = 2
    /\ \E ref \in TreeReferences(context) :
          /\ ref.primary_key = <<"a">>
          /\ IsSome(ref.resolved)
          /\ get_attribute(ref.resolved[1], <<"c">>) = Some(IntV(7))


\* the value tree without the payloads of its References
RECURSIVE WithoutPayloads(_)
WithoutPayloads(value) ==
    CASE value.tag = "Reference" -> ReferenceV([value.ref EXCEPT !.resolved = None])
      [] value.tag = "Array" ->
            ArrayV([i \in DOMAIN value.items |-> WithoutPayloads(value.items[i])])
      [] value.tag = "Instance" ->
            InstanceV([value.inst EXCEPT !.fields =
                          [i \in DOMAIN @ |-> [k |-> @[i].k, v |-> WithoutPayloads(@[i].v)]]])
      [] OTHER -> value

\* the document without the payloads of the References of its globals and of
\* its instances; schemas, primary keys and index entries are left as they are
DocumentWithoutPayloads(ctx) ==
    [ctx EXCEPT
        !.globals = [g \in DOMAIN @ |-> [k |-> @[g].k, v |-> WithoutPayloads(@[g].v)]],
        !.structs = [s \in DOMAIN @ |->
                        [k |-> @[s].k,
                         v |-> [@[s].v EXCEPT !.instances =
                                   [i \in DOMAIN @ |-> WithoutPayloads(InstanceV(@[i])).inst]]]]]

\* C36 (SpecDocument). The reference-resolution pass changes nothing but the
\* payloads of References: apart from them, every global, every instance with
\* the set and order of its fields, every struct name and key of a Reference,
\* every schema and every index entry is after the pass what it was before;
\* and when the pass fails, no document is returned.
C36_OnlyPayloadsChange ==
    [][pc = "resolve" =>
          \/ /\ pc' = "render"
             /\ DocumentWithoutPayloads(context') = DocumentWithoutPayloads(context)
          \/ /\ pc' = "error"
             /\ context' = TycoContext]_vars

\* the pass has attached a payload to the Reference a default put into an
\* inline instance
C36_Witness ==
    /\ arg = Doc_Nested
    /\ pc = "render"
    /\ \E ref \in TreeReferences(context) : IsSome(ref.resolved)


\* the names of the schema fields the instance has, in declaration order, each once
RECURSIVE PresentInOrder(_, _, _)
PresentInOrder(fields, inst, listed) ==
    IF fields = <<>> THEN <<>>
    ELSE IF map_contains_key(inst.fields, Head(fields).name) /\ Head(fields).name \notin listed
    THEN <<Head(fields).name>>
            \o PresentInOrder(Tail(fields), inst, listed \cup {Head(fields).name})
    ELSE PresentInOrder(Tail(fields), inst, listed)

\* the names of the instance after the pass that are no schema fields, in the
\* order the instance had them before the pass
RemainingInOrder(before, after, struct) ==
    SelectSeq(before.field_order,
              LAMBDA key : key \notin FieldNames(struct) /\ map_contains_key(after.fields, key))

\* the field order of the instance starts with the schema fields it has, in
\* declaration order, and lists every field once
SchemaFieldsFirst(inst, struct) ==
    /\ OrderListsKeys(inst)
    /\ Len(inst.field_order) >= Len(PresentInOrder(struct.fields, inst, {}))
    /\ SubSeq(inst.field_order, 1, Len(PresentInOrder(struct.fields, inst, {})))
          = PresentInOrder(struct.fields, inst, {})

\* C37 (SpecDocument). After the coercion pass the field order of every
\* instance of a struct with a known schema is: the schema fields the
\* instance has, in declaration order, then its other fields in the order
\* they had before the pass; no field is missing from the order or twice in
\* it.  The instances inside other values are held to the same shape.
C37_SchemaOrderThenRest ==
    [][(pc = "coerce" /\ pc' = "index") =>
          /\ \A s \in 1..Len(context'.structs) :
                \A i \in 1..Len(context'.structs[s].v.instances) :
                   context'.structs[s].v.instances[i].field_order
                      = PresentInOrder(context.structs[s].v.fields,
                                       context'.structs[s].v.instances[i], {})
                           \o RemainingInOrder(context.structs[s].v.instances[i],
                                               context'.structs[s].v.instances[i],
                                               context.structs[s].v)
          /\ \A inst \in DocumentInstances(context') :
                IsSome(get_struct(context, inst.struct_name)) =>
                   SchemaFieldsFirst(inst, get_struct(context, inst.struct_name)[1])]_vars


(***************************************************************************)
(* SpecPath: resolve_from_instance and resolve_from_globals on their own,  *)
(* applied to a path of at most MaxPath segments.  The instance and the    *)
(* globals hold the same entries: a nested instance, a Reference with a    *)
(* payload, a Reference without one, a text, and a text under a dotted     *)
(* name.  arg is the path, res is [from_instance, from_globals].           *)
(***************************************************************************)
\* most segments of a path
MaxPath == 3

\* the segments a path is made of
PathSegments == {<<"i">>, <<"r">>, <<"u">>, <<"x">>, <<"a">>, <<"b">>}

\* the text `w`
PathText == StringV(TycoString(<<"w">>, FALSE, FALSE))

\* the instance inside: a text, a text under the name `a.b`, a Reference without payload
PathInner ==
    set_attribute(
        set_attribute(
            set_attribute(TycoInstance(<<"A">>), <<"x">>, PathText),
            <<"a", ".", "b">>, PathText),
        <<"u">>, ReferenceV(TycoReference(<<"A">>, <<"k">>)))

\* the instance outside: the inner instance as a value and as the payload of
\* a Reference, a Reference without payload, and the two texts
PathOuter ==
    set_attribute(
        set_attribute(
            set_attribute(
                set_attribute(
                    set_attribute(TycoInstance(<<"B">>), <<"i">>, InstanceV(PathInner)),
                    <<"r">>,
                    ReferenceV([TycoReference(<<"A">>, <<"k">>) EXCEPT
                                   !.resolved = Some(PathInner)])),
                <<"u">>, ReferenceV(TycoReference(<<"A">>, <<"k">>))),
            <<"x">>, PathText),
        <<"a", ".", "b">>, PathText)

\* the document whose globals are the attributes of the outer instance
PathContext == [TycoContext EXCEPT !.globals = PathOuter.fields]

InitPath ==
    /\ pc = "path"
    /\ arg \in SeqsUpTo(PathSegments, MaxPath) \ {<<>>}
    /\ res = <<>>
    /\ context = PathContext
    /\ state = "TopLevel"
    /\ current_struct = None
    /\ instance_lines = <<>>
    /\ idx = 0
    /\ eof = FALSE
    /\ err = ""
    /\ snapshot = TycoContext
    /\ instance_snapshot = None
    /\ cursor = StartCursor
    /\ NoFiles

\* the path is resolved from the instance
ResolveFromInstance ==
    /\ pc = "path"
    /\ pc' = "instance"
    /\ res' = resolve_from_instance(PathOuter, arg)
    /\ UNCHANGED <<context, err, arg, loop_vars, render_vars, file_vars>>

\* the path is resolved from the globals
ResolveFromGlobals ==
    /\ pc = "path"
    /\ pc' = "globals"
    /\ res' = resolve_from_globals(context, arg)
    /\ UNCHANGED <<context, err, arg, loop_vars, render_vars, file_vars>>

NextPath == ResolveFromInstance \/ ResolveFromGlobals

SpecPath == InitPath /\ [][NextPath]_vars

\* the first k pending segments rejoined with `.`
RECURSIVE GroupName(_, _)
GroupName(pending, k) ==
    IF k = 1 THEN pending[1] ELSE GroupName(pending, k - 1) \o <<".">> \o pending[k]

\* the lengths of the groups of pending segments that name an entry of the container
Groups(entries, pending) ==
    {k \in 1..Len(pending) : map_contains_key(entries, GroupName(pending, k))}

\* the value the path leads to when its segments are grouped left to right,
\* at each container into the shortest group that names an entry, and every
\* value before the last is an Instance or a Reference with a payload
RECURSIVE Grouped(_, _)
GroupedFrom(value, rest) ==
    IF rest = <<>> THEN Some(value)
    ELSE IF value.tag = "Instance" THEN Grouped(value.inst.fields, rest)
    ELSE IF value.tag = "Reference" /\ IsSome(value.ref.resolved)
         THEN Grouped(value.ref.resolved[1].fields, rest)
    ELSE None

\* the shortest group, taken off the pending segments
GroupedBy(entries, pending, k) ==
    GroupedFrom(map_get(entries, GroupName(pending, k))[1], SubSeq(pending, k + 1, Len(pending)))

Grouped(entries, pending) ==
    IF Groups(entries, pending) = {} THEN None
    ELSE GroupedBy(entries, pending,
                   CHOOSE k \in Groups(entries, pending) :
                      \A j \in Groups(entries, pending) : k <= j)

\* C38 (SpecPath). Path resolution, from an instance and from the globals,
\* returns a value exactly when the segments can be grouped left to right
\* into names of entries, at each container the shortest group that names
\* one, with every value before the last an Instance or a Reference with a
\* payload, and then it returns that value; every other path is unresolved.
C38_PathGroupsSegments ==
    /\ pc = "instance" => res = Grouped(PathOuter.fields, arg)
    /\ pc = "globals" => res = Grouped(context.globals, arg)


\* what the line loop keeps true of its locals
LoopLocals ==
    /\ (state = "InStructInstances" \/ instance_lines # <<>>) => IsSome(current_struct)
    /\ IsSome(current_struct) => IsSome(get_struct(context, current_struct[1]))

\* C39 (Spec). While lines are read: when the state is InStructInstances or
\* instance lines are pending, a current struct is set, and a current struct
\* that is set names a struct of the document.  An UnknownStruct error is
\* raised by the reference-resolution pass only: never while lines are read
\* or instance lines flushed.
C39_CurrentStructIsDeclared ==
    /\ [](pc = "lines" => LoopLocals)
    /\ [][(pc' = "error" /\ err' = "UnknownStruct") => pc = "resolve"]_vars

\* instance lines are pending for the open struct after a field line has
\* put the state back to InStructSchema
C39_Witness ==
    /\ pc = "lines"
    /\ instance_lines # <<>>
    /\ state = "InStructSchema"
    /\ IsSome(current_struct)
    /\ IsSome(get_struct(context, current_struct[1]))


\* the line at idx is an instance bullet that ends in a backslash
BulletContinues ==
    /\ StartsWith(TrimmedLine, <<"-">>)
    /\ EndsWith(TrimmedLine, <<"\\">>)
    /\ IsNone(HeaderAt)
    /\ IsNone(FieldAt)
    /\ ~(IsSome(UpdateAt) /\ IsSome(current_struct))

\* the line at idx is a field or global declaration whose value opens a
\* triple-quoted literal and does not close it
FieldOpensLiteral ==
    /\ TrimmedLine # <<>>
    /\ IsNone(HeaderAt)
    /\ IsSome(FieldAt)
    /\ StillOpen(FieldAt[1].value)

\* the branches of the loop that join the lines after the dispatched one to it
JoiningForms == {"field", "global", "default", "bullet"}

\* one step of the call, as to the lines it consumes: an iteration of the
\* loop consumes the line at idx and, joined to it, the lines up to the new
\* idx; no other step moves idx
ConsumesOnce ==
    /\ idx' >= idx
    /\ ~AtLine => idx' = idx
    /\ (AtLine /\ pc' = "lines") =>
          /\ idx' > idx
          /\ idx' <= Len(arg)
          /\ idx' > idx + 1 => StepAt.kind \in JoiningForms
          /\ (idx + 1 < Len(arg) /\ (BulletContinues \/ FieldOpensLiteral)) => idx' > idx + 1

\* C40 (SpecDocument). The line loop terminates on every document: the line
\* index never passes the end, and each iteration moves it forward, past the
\* dispatched line and past the lines joined to it as backslash
\* continuations or as parts of a multi-line literal, so that the lines left
\* to read become fewer at every iteration and every line is consumed by one
\* iteration and by no other.
C40_LineLoopTerminates ==
    /\ [](pc = "lines" => idx <= Len(arg))
    /\ [][ConsumesOnce]_vars

\* the bullet `- a, \` has consumed the line after it, and the header after
\* the two is the next line read
C40_Witness ==
    /\ arg = Doc_ContinuedThenHeader
    /\ pc = "lines"
    /\ idx = 5
    /\ Len(instance_lines) = 1

==========================================================================
